---- MODULE Spec2Model ----
(***************************************************************************)
(* Mission Log, Mission Control, Conductor, hub and tools of the backend.  *)
(*                                                                         *)
(* LogSpec   one MissionLogService instance and its mission_log.json:      *)
(*           every operation of the service, in any order.                 *)
(* Spec      one dispatched mission of a user: the Conductor loop, the     *)
(*           stop endpoint, the planner's set_initial_plan.                *)
(* LiveSpec  Spec with the mission's steps taken whenever they stay        *)
(*           possible.                                                     *)
(* ConcSpec  Spec together with the task-CRUD endpoints, each served by a  *)
(*           fresh MissionLogService that loads the file first.            *)
(* McSpec    the Mission Control registry: its four operations, for any    *)
(*           users, in any order.                                          *)
(* HubSpec   the WebSocket hub: connections of a user's clients, their     *)
(*           endpoint coroutines, and one broadcast at a time.             *)
(* ProjSpec  the project's Python files, the Vector Index and the Symbol   *)
(*           Index under the file tools and the index runs.                *)
(* SymSpec   the Symbol Index of one CodeIntelligenceService under the     *)
(*           calls that reach it.                                          *)
(* RunSpec   the missions of one user dispatched side by side, the stop    *)
(*           endpoint and Mission Control.                                 *)
(* PathSpec  the path arguments of a tool as run_tool prepares them.       *)
(* ReqSpec   requirements.txt under add_dependency_to_requirements.        *)
(* ResultSpec  one tool result as run_tool and the Conductor classify it.  *)
(* StreamSpec  one unified_llm_streamer call next to Mission Control.      *)
(***************************************************************************)
EXTENDS Integers, Sequences, FiniteSets, TLC

\* ------------------------------------------------------------------ bounds
MaxTasks == 3          \* longest task list explored
MaxId == 3             \* largest task id handed out
MaxSteps == 2          \* longest plan a planner / re-planner reply holds
MaxAttempts == 3       \* attempts of one task id that are followed
MaxHttpOps == 1        \* task-CRUD requests served while missions run
MaxMissions == 1       \* missions dispatched one after the other
MaxSockets == 3        \* WebSocket connections opened over a run
MaxToolCalls == 3      \* tool calls and index runs made on one project
MaxSegs == 3           \* most segments of a path argument
MaxDeps == 2           \* most dependencies one add_dependency_to_requirements call lists
MaxLines == 2          \* most lines the LLM server sends in one streamed reply
MaxRuns == 2           \* missions of one user dispatched side by side
MaxRunTasks == 2       \* pending tasks a mission run side by side finds in its log

\* --------------------------------------------------------------- constants
MAX_RETRIES_PER_TASK == 1

None == "None"
Descs == {"a", "b"}
Goals == {"g"}
ErrMsg == "error"
Users == {"u1", "u2"}
Me == "u1"
Clients == {"command_deck"}
Files == {"a.py", "b.py"}
Absent == [exists |-> FALSE, funcs |-> {}, imports |-> {}, top |-> {}]

\* ----------------------------------------------------------------- helpers
Range(s) == {s[i] : i \in 1..Len(s)}
Ids(ts) == {ts[i].id : i \in 1..Len(ts)}
MaxOf(S) == CHOOSE m \in S : \A x \in S : x <= m
SeqsUpTo(S, n) == UNION {[1..k -> S] : k \in 0..n}
\* first index of the task whose id is tid, 0 when there is none
IndexOfId(ts, tid) ==
    IF tid \in Ids(ts)
    THEN CHOOSE i \in 1..Len(ts) : ts[i].id = tid /\ \A j \in 1..(i - 1) : ts[j].id # tid
    ELSE 0
RemoveAt(s, i) == [k \in 1..(Len(s) - 1) |-> IF k < i THEN s[k] ELSE s[k + 1]]
StrictlyIncreasing(ts) == \A i, j \in 1..Len(ts) : i < j => ts[i].id < ts[j].id
DistinctIds(ts) == \A i, j \in 1..Len(ts) : i # j => ts[i].id # ts[j].id

VARIABLES
    tasks,              \* MissionLogService.tasks of the owning service
    next_task_id,       \* MissionLogService._next_task_id
    initial_user_goal,  \* MissionLogService._initial_user_goal
    disk,               \* mission_log.json: [initial_goal, tasks]
    lastOp,             \* the Mission Log operation the last step performed
    usedIds,            \* history: ids handed out since the last set_initial_plan
    reordered,          \* history: a reorder changed the order since the last set_initial_plan
    mission_states,     \* mission_control._mission_states: user -> "True" | "False" | None (no entry)
    pc,                 \* where the dispatched background task of user Me stands
    current_task,       \* id of execute_mission's current_task, 0 before the first selection
    retry_count,        \* execute_mission's retry_count
    task_succeeded,     \* execute_mission's task_succeeded
    attempts,           \* history: attempts of each task id in this mission, counted up to MaxAttempts
    stopRequested,      \* history: request_mission_stop hit Me's entry during this mission
    replanCalls,        \* history: run_strategic_replan calls since current_task was selected
    httpOps,            \* history: task-CRUD requests served during missions, up to MaxHttpOps
    missions,           \* history: missions dispatched so far, up to MaxMissions
    bcast,              \* message types the last step broadcast to Me
    plan_replies,       \* history: the LLM replies the planning workflow under way has consumed
    tool,               \* the tool invocation in flight: what it is and how it ends when left alone
    active_connections, \* WebSocketManager.active_connections: user -> client -> socket, 0 when unbound
    sockets,            \* every WebSocket and the endpoint coroutine that serves it
    broadcast,          \* the broadcast_to_user call under way or just finished
    files,              \* the project's Python files: path -> content, Absent when there is none
    vector_index,       \* the Vector Index: the chunks of the project's collection
    symbol_definitions, \* CodeIntelligenceService._symbol_definitions, as the set of its CodeSymbols
    file_to_symbols,    \* CodeIntelligenceService._file_to_symbols: path -> names, {} when no entry
    tool_calls,         \* history: tool calls and index runs made on the project, up to MaxToolCalls
    execution_params,   \* the path argument of the last run_tool: as the LLM gave it, as the action got it
    files_before,       \* history: the project's files as they were before the last tool call
    requirements,       \* the lines of the requirements file, a dependency each; <<>> when empty or missing
    db,                 \* the DB session of the background task: its state, and whether the wrapper holds it
    tool_result,        \* the last run_tool: the tool, what it returned, what run_tool and the Conductor made of it
    stream,             \* the unified_llm_streamer call under way: where it is, the lines to come, what it forwarded
    project_root,       \* the project the CodeIntelligenceService is loaded for, None before load_for_project
    runs,               \* the dispatched missions of one user followed side by side: where each one is
    terminal_messages   \* history: the terminal messages the present mission has broadcast, in order

logVars == <<tasks, next_task_id, initial_user_goal, disk, lastOp, usedIds, reordered>>
missionVars == <<mission_states, pc, current_task, retry_count, task_succeeded, attempts,
                 stopRequested, replanCalls, httpOps, missions, bcast>>
projVars == <<files, vector_index, symbol_definitions, file_to_symbols, tool_calls, files_before>>
envVars == <<plan_replies, active_connections, sockets, broadcast,
             files, vector_index, symbol_definitions, file_to_symbols, tool_calls,
                   execution_params, files_before,
                   requirements,
                   tool_result,
                   stream,
                   project_root,
                   runs>>
vars == <<tasks, next_task_id, initial_user_goal, disk, lastOp, usedIds, reordered,
          mission_states, pc, current_task, retry_count, task_succeeded, attempts,
          stopRequested, replanCalls, httpOps, missions, bcast, plan_replies, tool, db,
          active_connections, sockets, broadcast,
          files, vector_index, symbol_definitions, file_to_symbols, tool_calls,
                   execution_params, files_before,
                   requirements,
                   tool_result,
                   stream,
                   project_root,
                   runs,
                   terminal_messages>>

\* ------------------------------------------------------ MissionLogService
\* The service as a value, so that a request-scoped instance can be built.
Self == [tasks |-> tasks, next_task_id |-> next_task_id,
         initial_user_goal |-> initial_user_goal]

NewService == [tasks |-> <<>>, next_task_id |-> 1, initial_user_goal |-> ""]

save_log_to_disk(s) == [initial_goal |-> s.initial_user_goal, tasks |-> s.tasks]

load_next_id_bug(ts) == IF ts # <<>> THEN Len(ts) + 1 ELSE 1
load_next_id(ts) == IF ts # <<>> THEN MaxOf(Ids(ts)) + 1 ELSE 1

load_log_for_active_project(d) ==
    [tasks |-> d.tasks,
     next_task_id |-> load_next_id(d.tasks),
     initial_user_goal |-> d.initial_goal]

NewTask(tid, description) ==
    [id |-> tid, description |-> description, done |-> FALSE, last_error |-> None]

add_task_internal_bug(s, description) ==
    [s EXCEPT !.tasks = Append(@, NewTask(s.next_task_id, description))]
add_task_internal(s, description) ==
    [s EXCEPT !.tasks = Append(@, NewTask(s.next_task_id, description)),
              !.next_task_id = @ + 1]

RECURSIVE add_steps(_, _)
add_steps(s, steps) ==
    IF steps = <<>> THEN s
    ELSE add_steps(add_task_internal(s, Head(steps)), Tail(steps))

set_initial_plan(s, plan_steps, user_goal) ==
    add_steps([tasks |-> <<>>, next_task_id |-> 1, initial_user_goal |-> user_goal],
              plan_steps)

\* add_task raises ValueError on an empty description and changes nothing
add_task_ok(description) == description # ""
add_task(s, description) ==
    IF add_task_ok(description) THEN add_task_internal(s, description) ELSE s

mark_done_fields_bug(t) == [t EXCEPT !.done = TRUE]
mark_done_fields(t) == [t EXCEPT !.done = TRUE, !.last_error = None]

\* the return value: True when a task with the id exists, done already or not
mark_task_as_done_ok_bug(s, tid) ==
    tid \in Ids(s.tasks) /\ ~s.tasks[IndexOfId(s.tasks, tid)].done
mark_task_as_done_ok(s, tid) == tid \in Ids(s.tasks)
mark_task_as_done_saves(s, tid) ==
    tid \in Ids(s.tasks) /\ ~s.tasks[IndexOfId(s.tasks, tid)].done
mark_task_as_done(s, tid) ==
    IF mark_task_as_done_saves(s, tid)
    THEN [s EXCEPT !.tasks[IndexOfId(s.tasks, tid)] = mark_done_fields(@)]
    ELSE s

update_task_ok(s, tid, description) == description # "" /\ tid \in Ids(s.tasks)
update_task(s, tid, description) ==
    IF update_task_ok(s, tid, description)
    THEN [s EXCEPT !.tasks[IndexOfId(s.tasks, tid)].description = description]
    ELSE s

delete_task_ok(s, tid) == tid \in Ids(s.tasks)
delete_task(s, tid) ==
    IF delete_task_ok(s, tid)
    THEN [s EXCEPT !.tasks = RemoveAt(@, IndexOfId(s.tasks, tid))]
    ELSE s

\* task_map = {task['id']: task for task in self.tasks}: the last task wins
task_map(ts) ==
    [tid \in Ids(ts) |->
        ts[CHOOSE i \in 1..Len(ts) : ts[i].id = tid /\ \A j \in (i + 1)..Len(ts) : ts[j].id # tid]]

reorder_tasks_ok_bug(s, ordered_task_ids) ==
    ~(Range(ordered_task_ids) # Ids(s.tasks))
reorder_tasks_ok(s, ordered_task_ids) ==
    ~(Len(ordered_task_ids) # Len(s.tasks) \/ Range(ordered_task_ids) # Ids(s.tasks))
reorder_tasks(s, ordered_task_ids) ==
    IF reorder_tasks_ok(s, ordered_task_ids)
    THEN [s EXCEPT !.tasks =
            LET kept == SelectSeq(ordered_task_ids, LAMBDA x : x \in Ids(s.tasks))
            IN [k \in 1..Len(kept) |-> task_map(s.tasks)[kept[k]]]]
    ELSE s

truncate_at_bug(ts, start_index) == SubSeq(ts, 1, start_index)
truncate_at(ts, start_index) == SubSeq(ts, 1, start_index - 1)

replace_tasks_from_id_ok(s, start_task_id) == IndexOfId(s.tasks, start_task_id) # 0
replace_tasks_from_id(s, start_task_id, new_plan_steps) ==
    IF replace_tasks_from_id_ok(s, start_task_id)
    THEN add_steps([s EXCEPT !.tasks = truncate_at(@, IndexOfId(s.tasks, start_task_id))],
                   new_plan_steps)
    ELSE s

get_tasks_pending_bug(s) == SelectSeq(s.tasks, LAMBDA t : t.done = FALSE \/ t.last_error = None)
get_tasks_pending(s) == SelectSeq(s.tasks, LAMBDA t : t.done = FALSE)

\* ------------------------------------------------------------ log actions
\* lastOp keeps the arguments of a call that took effect; of a rejected call it
\* keeps the task id and, for reorder_tasks, whether the list was a permutation.
NoOp == [op |-> "none", by |-> "owner", id |-> 0, ids |-> <<>>, steps |-> <<>>, desc |-> "",
         ok |-> FALSE, saved |-> FALSE, newIds |-> {}, perm |-> FALSE]
Op(name) == [NoOp EXCEPT !.op = name]

\* ids lists every id of ts exactly once
IsPermutationOf(ids, ts) ==
    /\ Len(ids) = Len(ts)
    /\ \A i \in 1..Len(ts) : Cardinality({k \in 1..Len(ids) : ids[k] = ts[i].id}) = 1
    /\ \A k \in 1..Len(ids) : \E i \in 1..Len(ts) : ts[i].id = ids[k]

\* the owning service becomes s2; the file is rewritten when the operation saved
Install(s2, saved, op) ==
    /\ tasks' = s2.tasks
    /\ next_task_id' = s2.next_task_id
    /\ initial_user_goal' = s2.initial_user_goal
    /\ disk' = IF saved THEN save_log_to_disk(s2) ELSE disk
    /\ lastOp' = op

LogInit ==
    /\ tasks = <<>>
    /\ next_task_id = 1
    /\ initial_user_goal = ""
    /\ disk = save_log_to_disk(NewService)
    /\ lastOp = NoOp
    /\ usedIds = {}
    /\ reordered = FALSE

Load ==
    /\ Install(load_log_for_active_project(disk), TRUE, Op("load"))
    /\ UNCHANGED <<usedIds, reordered>>
    /\ UNCHANGED missionVars
    /\ UNCHANGED envVars
    /\ UNCHANGED terminal_messages
    /\ UNCHANGED <<tool, db>>

SetInitialPlan ==
    \E steps \in SeqsUpTo(Descs, MaxSteps), g \in Goals :
        LET s2 == set_initial_plan(Self, steps, g) IN
        /\ Len(steps) <= MaxId
        /\ Install(s2, TRUE, [Op("set_initial_plan") EXCEPT !.steps = steps, !.ok = TRUE,
                              !.saved = TRUE, !.newIds = Ids(s2.tasks)])
        /\ usedIds' = Ids(s2.tasks)
        /\ reordered' = FALSE
        /\ UNCHANGED missionVars
        /\ UNCHANGED envVars
        /\ UNCHANGED terminal_messages
        /\ UNCHANGED <<tool, db>>

AddTask ==
    \E d \in Descs \cup {""} :
        LET s2 == add_task(Self, d)
            ok == add_task_ok(d) IN
        /\ Len(tasks) < MaxTasks
        /\ next_task_id <= MaxId
        /\ Install(s2, ok, [Op("add_task") EXCEPT !.desc = d, !.ok = ok, !.saved = ok,
                            !.newIds = IF ok THEN {next_task_id} ELSE {}])
        /\ usedIds' = IF ok THEN usedIds \cup {next_task_id} ELSE usedIds
        /\ UNCHANGED reordered
        /\ UNCHANGED missionVars
        /\ UNCHANGED envVars
        /\ UNCHANGED terminal_messages
        /\ UNCHANGED <<tool, db>>

MarkTaskAsDone ==
    \E tid \in 1..MaxId :
        /\ Install(mark_task_as_done(Self, tid), mark_task_as_done_saves(Self, tid),
                   [Op("mark_task_as_done") EXCEPT !.id = tid,
                        !.ok = mark_task_as_done_ok(Self, tid),
                        !.saved = mark_task_as_done_saves(Self, tid)])
        /\ UNCHANGED <<usedIds, reordered>>
        /\ UNCHANGED missionVars
        /\ UNCHANGED envVars
        /\ UNCHANGED terminal_messages
        /\ UNCHANGED <<tool, db>>

UpdateTask ==
    \E tid \in 1..MaxId, d \in Descs \cup {""} :
        LET ok == update_task_ok(Self, tid, d) IN
        /\ Install(update_task(Self, tid, d), ok,
                   [Op("update_task") EXCEPT !.id = tid, !.desc = IF ok THEN d ELSE "",
                        !.ok = ok, !.saved = ok])
        /\ UNCHANGED <<usedIds, reordered>>
        /\ UNCHANGED missionVars
        /\ UNCHANGED envVars
        /\ UNCHANGED terminal_messages
        /\ UNCHANGED <<tool, db>>

DeleteTask ==
    \E tid \in 1..MaxId :
        LET ok == delete_task_ok(Self, tid) IN
        /\ Install(delete_task(Self, tid), ok,
                   [Op("delete_task") EXCEPT !.id = tid, !.ok = ok, !.saved = ok])
        /\ UNCHANGED <<usedIds, reordered>>
        /\ UNCHANGED missionVars
        /\ UNCHANGED envVars
        /\ UNCHANGED terminal_messages
        /\ UNCHANGED <<tool, db>>

ReorderTasks ==
    \E ids \in SeqsUpTo(1..MaxId, MaxTasks) :
        LET ok == reorder_tasks_ok(Self, ids)
            s2 == reorder_tasks(Self, ids) IN
        /\ Install(s2, ok, [Op("reorder_tasks") EXCEPT !.ids = IF ok THEN ids ELSE <<>>,
                            !.ok = ok, !.saved = ok, !.perm = IsPermutationOf(ids, tasks)])
        /\ reordered' = (reordered \/ s2.tasks # tasks)
        /\ UNCHANGED usedIds
        /\ UNCHANGED missionVars
        /\ UNCHANGED envVars
        /\ UNCHANGED terminal_messages
        /\ UNCHANGED <<tool, db>>

ReplaceTasksFromId ==
    \E tid \in 1..MaxId, steps \in SeqsUpTo(Descs, MaxSteps) :
        LET ok == replace_tasks_from_id_ok(Self, tid)
            s2 == replace_tasks_from_id(Self, tid, steps)
            new == IF ok THEN next_task_id..(next_task_id + Len(steps) - 1) ELSE {} IN
        /\ next_task_id + Len(steps) - 1 <= MaxId
        /\ Install(s2, ok, [Op("replace_tasks_from_id") EXCEPT !.id = tid,
                            !.steps = IF ok THEN steps ELSE <<>>,
                            !.ok = ok, !.saved = ok, !.newIds = new])
        /\ usedIds' = usedIds \cup new
        /\ UNCHANGED reordered
        /\ UNCHANGED missionVars
        /\ UNCHANGED envVars
        /\ UNCHANGED terminal_messages
        /\ UNCHANGED <<tool, db>>

LogNext ==
    \/ Load
    \/ SetInitialPlan
    \/ AddTask
    \/ MarkTaskAsDone
    \/ UpdateTask
    \/ DeleteTask
    \/ ReorderTasks
    \/ ReplaceTasksFromId

\* --------------------------------------------------------- Mission Control
set_mission_running(ms, u) == [ms EXCEPT ![u] = "True"]
request_mission_stop(ms, u) == IF ms[u] # None THEN [ms EXCEPT ![u] = "False"] ELSE ms
\* _mission_states.get(user_id, True)
is_mission_running_bug(ms, u) == ms[u] = "True"
is_mission_running(ms, u) == IF ms[u] = None THEN TRUE ELSE ms[u] = "True"
set_mission_finished(ms, u) == [ms EXCEPT ![u] = None]

\* The DB session of a background task. rehydrate_services_for_background_task
\* opens it with SessionLocal() and returns it to the wrapper, unless the refresh of
\* the LLM assignments raises first
NoDb == [session |-> "none", held |-> FALSE]
Rehydrated == [session |-> "open", held |-> TRUE]
RehydrateRaised == [session |-> "open", held |-> FALSE]

\* `if db: db.close()` in the wrapper's finally
close_db(d) == IF d.held THEN [d EXCEPT !.session = "closed"] ELSE d

\* The results of an action function, by what the two classifications look at: no
\* result; a string, by whether it starts with "error" and whether it holds
\* "failed" once stripped and lower-cased; a dict, by its status entry.
StatusValues == {"missing", "success", "failure", "error", "Failure", "ERROR"}
ToolResults ==
    {[type |-> "none", starts_error |-> FALSE, has_failed |-> FALSE, status |-> "missing"]}
    \cup [type : {"str"}, starts_error : BOOLEAN, has_failed : BOOLEAN, status : {"missing"}]
    \cup [type : {"dict"}, starts_error : {FALSE}, has_failed : {FALSE}, status : StatusValues]
NoResult ==
    [action_id |-> "", result |-> CHOOSE r \in ToolResults : r.type = "none",
     raised |-> FALSE, caught |-> FALSE, status |-> "", broadcasts |-> {}, is_error |-> FALSE]

\* str.lower on a status
lower(status) ==
    CASE status = "Failure" -> "failure"
      [] status = "ERROR" -> "error"
      [] OTHER -> status

\* _is_result_an_error: result.get('status', 'success').lower() in ["failure", "error"]
is_result_an_error(r) ==
    \/ r.type = "none"
    \/ r.type = "str" /\ (r.starts_error \/ r.has_failed)
    \/ r.type = "dict" /\ lower(r.status) \in {"failure", "error"}

\* run_tool_by_dict for a tool_name the Foundry has no blueprint for:
\* "Error: Blueprint '...' not found in Foundry."
blueprint_not_found_bug == [type |-> "str", starts_error |-> FALSE, has_failed |-> FALSE, status |-> "missing"]
blueprint_not_found == [type |-> "str", starts_error |-> TRUE, has_failed |-> FALSE, status |-> "missing"]

\* no unified_llm_streamer call yet
NoStream ==
    [pc |-> "idle", user |-> "", lines |-> <<>>, polls |-> 0, reads |-> 0, forwarded |-> 0,
     final_reply |-> "", result |-> [kind |-> "none", starts_error |-> FALSE]]

\* a mission of the user that no dispatch request has started yet
Runs == 1..MaxRuns
NoRun == [pc |-> "none", todo |-> 0, executed |-> 0, stop_before_start |-> FALSE,
          stopped |-> FALSE]

MissionInit ==
    /\ mission_states = [u \in Users |-> None]
    /\ pc = "idle"
    /\ current_task = 0
    /\ retry_count = 0
    /\ task_succeeded = FALSE
    /\ attempts = [i \in 1..MaxId |-> 0]
    /\ stopRequested = FALSE
    /\ replanCalls = 0
    /\ httpOps = 0
    /\ missions = 0
    /\ bcast = {}

EnvInit ==
    /\ plan_replies = [architect |-> "none", auditor |-> "none", sequencer |-> "none"]
    /\ tool = [kind |-> "none", fails |-> FALSE]
    /\ active_connections = [u \in Users |-> [c \in Clients |-> 0]]
    /\ sockets = [k \in 1..MaxSockets |->
                    [pc |-> "unused", user |-> "", client |-> "", old |-> 0,
                     alive |-> TRUE, closed |-> FALSE]]
    /\ broadcast = [phase |-> "idle", user |-> "",
                    start |-> [c \in Clients |-> 0],
                    pending |-> {}, received |-> {}, raised |-> FALSE]
    /\ files = [f \in Files |-> Absent]
    /\ vector_index = {}
    /\ symbol_definitions = {}
    /\ file_to_symbols = [f \in Files |-> {}]
    /\ tool_calls = 0
    /\ files_before = [f \in Files |-> Absent]
    /\ execution_params = [key |-> "", given |-> [abs |-> FALSE, segs |-> <<>>],
                           value |-> [abs |-> FALSE, segs |-> <<>>], ran |-> FALSE]
    /\ requirements = <<>>
    /\ db = NoDb
    /\ tool_result = NoResult
    /\ stream = NoStream
    /\ runs = [m \in Runs |-> NoRun]
    /\ terminal_messages = <<>>

Init == LogInit /\ MissionInit /\ EnvInit /\ project_root = None

\* the CodeIntelligenceService of a request is new, or load_for_project has just
\* given it the project (load_project_endpoint)
ProjInit == LogInit /\ MissionInit /\ EnvInit /\ project_root \in {None, "proj"}

\* ------------------------------------------------------------- Conductor
Min(a, b) == IF a < b THEN a ELSE b

\* while retry_count <= self.MAX_RETRIES_PER_TASK
retry_allowed(rc) == rc <= MAX_RETRIES_PER_TASK

\* if not task_succeeded and await mission_control.is_mission_running(user_id)
replan_due_bug(succeeded, running) == FALSE
replan_due(succeeded, running) == ~succeeded /\ running

\* current_task['last_error'] = ...: the dict is the one held in self.tasks
set_last_error(ts, tid, msg) ==
    IF IndexOfId(ts, tid) # 0 THEN [ts EXCEPT ![IndexOfId(ts, tid)].last_error = msg] ELSE ts

LogUntouched == UNCHANGED <<tasks, next_task_id, initial_user_goal, disk, usedIds, reordered>>
            /\ lastOp' = NoOp

\* POST /projects/dispatch: get_aura_services builds the request's services and the
\* background task is queued
Dispatch ==
    /\ pc \in {"idle", "done"}
    /\ missions < MaxMissions
    /\ missions' = missions + 1
    /\ pc' = "queued"
    /\ tasks' = NewService.tasks
    /\ next_task_id' = NewService.next_task_id
    /\ initial_user_goal' = NewService.initial_user_goal
    /\ lastOp' = NoOp
    /\ current_task' = 0
    /\ retry_count' = 0
    /\ task_succeeded' = FALSE
    /\ attempts' = [i \in 1..MaxId |-> 0]
    /\ stopRequested' = FALSE
    /\ replanCalls' = 0
    /\ bcast' = {}
    /\ UNCHANGED <<disk, usedIds, reordered, mission_states, httpOps>>
    /\ UNCHANGED envVars
    /\ terminal_messages' = <<>>
    /\ UNCHANGED <<tool, db>>

\* run_dispatch_task up to execute_mission's first poll: load the log, register the
\* mission, announce it
StartMission ==
    /\ pc = "queued"
    /\ Install(load_log_for_active_project(disk), TRUE, Op("load"))
    /\ mission_states' = set_mission_running(mission_states, Me)
    /\ bcast' = {"system_log", "agent_status_thinking"}
    /\ pc' = "loop"
    /\ db' = Rehydrated
    /\ UNCHANGED <<usedIds, reordered, current_task, retry_count, task_succeeded, attempts, httpOps, missions,
                   stopRequested, replanCalls>>
    /\ UNCHANGED envVars
    /\ UNCHANGED terminal_messages
    /\ UNCHANGED tool

\* rehydrate_services_for_background_task raises after SessionLocal(): the wrapper's
\* `except` reports it, its `db` is still None
RehydrateFails ==
    /\ pc = "queued"
    /\ LogUntouched
    /\ db' = RehydrateRaised
    /\ bcast' = {"system_log"}
    /\ pc' = "wrapper"
    /\ UNCHANGED <<mission_states, current_task, retry_count, task_succeeded, attempts, httpOps, missions,
                   stopRequested, replanCalls>>
    /\ UNCHANGED envVars
    /\ UNCHANGED terminal_messages
    /\ UNCHANGED tool

\* if not pending_tasks
no_pending_tasks_bug(s) == Len(get_tasks_pending(s)) <= 1
no_pending_tasks(s) == get_tasks_pending(s) = <<>>

\* top of `while True`: poll, select the first pending task, announce it
LoopTop ==
    /\ pc = "loop"
    /\ LogUntouched
    /\ IF ~is_mission_running(mission_states, Me)
       THEN /\ pc' = "finally"
            /\ bcast' = {"system_log"}
            /\ UNCHANGED <<current_task, retry_count, task_succeeded, replanCalls>>
       ELSE IF no_pending_tasks(Self)
       THEN /\ pc' = "polish"
            /\ bcast' = {}
            /\ UNCHANGED <<current_task, retry_count, task_succeeded, replanCalls>>
       ELSE /\ current_task' = get_tasks_pending(Self)[1].id
            /\ bcast' = {"active_task_updated"}
            /\ retry_count' = 0
            /\ task_succeeded' = FALSE
            /\ replanCalls' = 0
            /\ pc' = "attempt"
    /\ UNCHANGED <<mission_states, attempts, httpOps, missions, stopRequested>>
    /\ UNCHANGED envVars
    /\ UNCHANGED terminal_messages
    /\ UNCHANGED <<tool, db>>

\* top of the retry loop: the bound, the poll, then the coder LLM call is issued
AttemptTop ==
    /\ pc = "attempt"
    /\ LogUntouched
    /\ bcast' = {}
    /\ IF retry_allowed(retry_count) /\ is_mission_running(mission_states, Me)
       THEN /\ pc' = "coder"
            /\ attempts' = [attempts EXCEPT ![current_task] = Min(@ + 1, MaxAttempts)]
       ELSE /\ pc' = "after"
            /\ UNCHANGED attempts
    /\ UNCHANGED <<mission_states, current_task, retry_count, task_succeeded, stopRequested,
                   replanCalls, httpOps, missions>>
    /\ UNCHANGED envVars
    /\ UNCHANGED terminal_messages
    /\ UNCHANGED <<tool, db>>

\* The tools by what a stop can do to them while they run: write_file with a
\* task_description streams its content from the coder LLM (generate_code_for_task),
\* every other tool runs without a poll of Mission Control.
ToolKinds == {"plain", "generate"}
\* a tool_name that the Foundry does not know: run_tool_by_dict runs no action function
UnregisteredTool == "unregistered"
NoTool == [kind |-> "none", fails |-> FALSE]

\* unified_llm_streamer polls Mission Control before every read of the stream; a
\* stop that comes after the last read is not seen
stream_cancelled(kind, running) == kind = "generate" /\ ~running

\* the cancelled stream's "Error: Operation was cancelled by the user." is what
\* write_file returns; otherwise the tool ends the way it would have
tool_result_is_error(t, cancelled) ==
    \/ cancelled
    \/ t.fails
    \/ t.kind = UnregisteredTool /\ is_result_an_error(blueprint_not_found)

\* _get_tool_call_for_task returns: a tool call, or None (LLM error, cancelled
\* stream, reply without tool_name/arguments)
CoderReply ==
    /\ pc = "coder"
    /\ \E reply \in {"tool_call", "none"} :
        IF reply = "tool_call"
        THEN /\ pc' = "tool"
             /\ \E kind \in ToolKinds \cup {UnregisteredTool}, fails \in BOOLEAN :
                    /\ kind = UnregisteredTool => ~fails
                    /\ tool' = [kind |-> kind, fails |-> fails]
             /\ bcast' = {}
             /\ LogUntouched
             /\ UNCHANGED retry_count
        ELSE /\ pc' = "attempt"
             /\ UNCHANGED tool
             /\ bcast' = {}
             /\ tasks' = set_last_error(tasks, current_task, ErrMsg)
             /\ retry_count' = retry_count + 1
             /\ lastOp' = NoOp
             /\ UNCHANGED <<next_task_id, initial_user_goal, disk, usedIds, reordered>>
    /\ UNCHANGED <<mission_states, current_task, task_succeeded, attempts, httpOps, missions, stopRequested,
                   replanCalls, db>>
    /\ UNCHANGED envVars
    /\ UNCHANGED terminal_messages

\* run_tool_by_dict returns and _is_result_an_error classifies the result
ToolReturn ==
    /\ pc = "tool"
    /\ tool' = NoTool
    /\ \E cancelled \in BOOLEAN :
        /\ cancelled => stream_cancelled(tool.kind, is_mission_running(mission_states, Me))
        /\ IF ~tool_result_is_error(tool, cancelled)
           THEN /\ Install(mark_task_as_done(Self, current_task),
                           mark_task_as_done_saves(Self, current_task),
                           [Op("mark_task_as_done") EXCEPT !.by = "conductor", !.id = current_task,
                               !.ok = mark_task_as_done_ok(Self, current_task),
                               !.saved = mark_task_as_done_saves(Self, current_task)])
                /\ bcast' = (IF mark_task_as_done_saves(Self, current_task)
                             THEN {"mission_log_updated"} ELSE {}) \cup {"system_log"}
                /\ task_succeeded' = TRUE
                /\ pc' = "after"
                /\ UNCHANGED retry_count
           ELSE /\ tasks' = set_last_error(tasks, current_task, ErrMsg)
                /\ retry_count' = retry_count + 1
                /\ bcast' = {"system_log"}
                /\ pc' = "attempt"
                /\ lastOp' = IF tool.kind = UnregisteredTool
                             THEN [Op("run_tool_by_dict") EXCEPT !.by = "conductor", !.id = current_task]
                             ELSE NoOp
                /\ UNCHANGED <<next_task_id, initial_user_goal, disk, task_succeeded>>
    /\ UNCHANGED <<usedIds, reordered, mission_states, current_task, attempts, httpOps, missions, stopRequested,
                   replanCalls, db>>
    /\ UNCHANGED envVars
    /\ UNCHANGED terminal_messages

\* after the retry loop: re-plan, or sleep and go round
AfterAttempts ==
    /\ pc = "after"
    /\ LogUntouched
    /\ IF replan_due(task_succeeded, is_mission_running(mission_states, Me))
       THEN /\ pc' = "replan"
            /\ replanCalls' = replanCalls + 1
            /\ bcast' = {"system_log"}
       ELSE /\ pc' = "loop"
            /\ bcast' = {}
            /\ UNCHANGED replanCalls
    /\ UNCHANGED <<mission_states, current_task, retry_count, task_succeeded, attempts, httpOps, missions,
                   stopRequested>>
    /\ UNCHANGED envVars
    /\ UNCHANGED terminal_messages
    /\ UNCHANGED <<tool, db>>

\* run_strategic_replan returns: the reply was an error, empty, unparsable or held
\* no plan (the log stays as it is), or it held a plan
ReplanReply ==
    /\ pc = "replan"
    /\ \E new_plan_steps \in SeqsUpTo(Descs, MaxSteps) :
        IF new_plan_steps = <<>>
        THEN /\ LogUntouched
             /\ bcast' = {"system_log"}
        ELSE /\ next_task_id + Len(new_plan_steps) - 1 <= MaxId
             /\ Install(replace_tasks_from_id(Self, current_task, new_plan_steps),
                        replace_tasks_from_id_ok(Self, current_task),
                        [Op("replace_tasks_from_id") EXCEPT !.by = "conductor",
                            !.id = current_task, !.steps = new_plan_steps,
                            !.ok = replace_tasks_from_id_ok(Self, current_task),
                            !.saved = replace_tasks_from_id_ok(Self, current_task)])
             /\ bcast' = {"mission_log_updated", "aura_response"}
             /\ UNCHANGED <<usedIds, reordered>>
    /\ pc' = "loop"
    /\ UNCHANGED <<mission_states, current_task, retry_count, task_succeeded, attempts, httpOps, missions,
                   stopRequested, replanCalls>>
    /\ UNCHANGED envVars
    /\ UNCHANGED terminal_messages
    /\ UNCHANGED <<tool, db>>

\* _run_final_polish_check returns
PolishPass ==
    /\ pc = "polish"
    /\ LogUntouched
    /\ pc' = "summary"
    /\ bcast' = {"system_log"}
    /\ UNCHANGED <<mission_states, current_task, retry_count, task_succeeded, attempts, httpOps, missions,
                   stopRequested, replanCalls>>
    /\ UNCHANGED envVars
    /\ UNCHANGED terminal_messages
    /\ UNCHANGED <<tool, db>>

\* the terminal messages among the messages of a step
terminals_of(msgs) ==
    (IF "mission_success" \in msgs THEN <<"mission_success">> ELSE <<>>)
        \o (IF "mission_failure" \in msgs THEN <<"mission_failure">> ELSE <<>>)

\* _handle_mission_completion: the summary, then mission_success
completion_messages_bug == {"aura_response", "mission_success", "mission_failure"}
completion_messages == {"aura_response", "mission_success"}

MissionCompletion ==
    /\ pc = "summary"
    /\ LogUntouched
    /\ pc' = "finally"
    /\ bcast' = completion_messages
    /\ UNCHANGED <<mission_states, current_task, retry_count, task_succeeded, attempts, httpOps, missions,
                   stopRequested, replanCalls>>
    /\ UNCHANGED envVars
    /\ terminal_messages' = terminal_messages \o terminals_of(completion_messages)
    /\ UNCHANGED <<tool, db>>

\* an exception escapes an awaited step of the loop and reaches `except Exception`
\* in execute_mission; when it is the send of mission_success that raises, the
\* summary has gone out and the socket has not received mission_success
MissionException ==
    /\ pc \in {"coder", "replan", "polish", "summary"}
    /\ LogUntouched
    /\ pc' = "except"
    /\ \E sent \in {{}, completion_messages \ {"mission_success", "mission_failure"}} :
        /\ sent # {} => pc = "summary"
        /\ bcast' = sent
    /\ UNCHANGED <<mission_states, current_task, retry_count, task_succeeded, attempts, httpOps, missions,
                   stopRequested, replanCalls>>
    /\ UNCHANGED envVars
    /\ UNCHANGED terminal_messages
    /\ UNCHANGED <<tool, db>>

\* the `except Exception` clause of execute_mission: the error is posted to the chat
\* and mission_failure is broadcast
except_messages_bug == {"system_log"}
except_messages == {"system_log", "mission_failure"}

MissionExcept ==
    /\ pc = "except"
    /\ LogUntouched
    /\ pc' = "finally"
    /\ bcast' = except_messages
    /\ UNCHANGED <<mission_states, current_task, retry_count, task_succeeded, attempts, httpOps, missions,
                   stopRequested, replanCalls>>
    /\ UNCHANGED envVars
    /\ terminal_messages' = terminal_messages \o terminals_of(except_messages)
    /\ UNCHANGED <<tool, db>>

\* `finally` of execute_mission_in_background
MissionFinally ==
    /\ pc = "finally"
    /\ LogUntouched
    /\ mission_states' = set_mission_finished(mission_states, Me)
    /\ bcast' = {"agent_status_idle"}
    /\ pc' = "wrapper"
    /\ UNCHANGED <<current_task, retry_count, task_succeeded, attempts, httpOps, missions, stopRequested,
                   replanCalls>>
    /\ UNCHANGED envVars
    /\ UNCHANGED terminal_messages
    /\ UNCHANGED <<tool, db>>

\* `finally` of background_task_handler's wrapper
WrapperFinally ==
    /\ pc = "wrapper"
    /\ LogUntouched
    /\ db' = close_db(db)
    /\ bcast' = {"agent_status_idle"}
    /\ pc' = "done"
    /\ UNCHANGED <<mission_states, current_task, retry_count, task_succeeded, attempts, httpOps, missions,
                   stopRequested, replanCalls>>
    /\ UNCHANGED envVars
    /\ UNCHANGED terminal_messages
    /\ UNCHANGED tool

\* POST /projects/{name}/stop
RequestStop ==
    \E u \in Users :
        /\ mission_states' = request_mission_stop(mission_states, u)
        /\ stopRequested' = (stopRequested \/ (u = Me /\ mission_states[Me] # None))
        /\ LogUntouched
        /\ bcast' = {}
        /\ UNCHANGED <<pc, current_task, retry_count, task_succeeded, attempts, httpOps, missions, replanCalls>>
        /\ UNCHANGED envVars
        /\ UNCHANGED terminal_messages
        /\ UNCHANGED <<tool, db>>

\* ------------------------------------------------------- planning workflow
\* The replies of the three planning agents, by what the workflow does with them:
\*   missing     empty reply, or one that starts with "Error:"
\*   malformed   no JSON object in the reply, or the expected key missing or of the wrong type
\*   non_object  JSON that is not an object: .get raises AttributeError, which the
\*               workflow does not catch
ArchitectReplies == {"blueprint", "missing", "malformed", "non_object"}
\* "true" is audit_passed = true, "false" is audit_passed = false, "other" any other value
AuditorReplies == {"true", "false", "other", "missing", "malformed", "non_object"}
SequencerReplies == {"plan", "empty", "missing", "malformed", "non_object"}
NoReplies == [architect |-> "none", auditor |-> "none", sequencer |-> "none"]

PlannerStages == {"architect", "auditor", "sequencer"}

\* final_blueprint is a non-empty dict
blueprint_ok(reply) == reply = "blueprint"

\* audit_result.get("audit_passed") is True
audit_passed_bug(verdict) == verdict \in {"true", "other"}
audit_passed(verdict) == verdict = "true"

\* final_plan is a non-empty list
final_plan_ok(reply) == reply = "plan"

\* the step the workflow puts first when the blueprint names dependencies
DependencyStep == "deps"
final_plan_steps(steps, dependencies) ==
    IF dependencies THEN <<DependencyStep>> \o steps ELSE steps

\* what the workflow tells the user when a stage gives up: handle_error's chat
\* message, or the wrapper's system_log when the exception escaped
abort_messages(reply) == IF reply = "non_object" THEN {"system_log"} ELSE {"aura_error"}

\* run_planner_task up to the Architect's LLM call: the request's service loads the log
PlannerStart ==
    /\ pc = "idle"
    /\ Install(load_log_for_active_project(disk), TRUE, [Op("load") EXCEPT !.by = "planner"])
    /\ plan_replies' = NoReplies
    /\ pc' = "architect"
    /\ db' = Rehydrated
    /\ bcast' = {}
    /\ UNCHANGED <<usedIds, reordered, mission_states, current_task, retry_count, task_succeeded,
                   attempts, httpOps, missions, stopRequested, replanCalls, tool,
                   active_connections, sockets, broadcast,
                   files, vector_index, symbol_definitions, file_to_symbols, tool_calls,
                   execution_params, files_before,
                   requirements,
                   tool_result,
                   stream,
                   project_root,
                   runs,
                   terminal_messages>>

\* rehydrate_services_for_background_task raises in run_planner_task's wrapper
PlannerRehydrateFails ==
    /\ pc = "idle"
    /\ LogUntouched
    /\ plan_replies' = NoReplies
    /\ pc' = "planner_end"
    /\ db' = RehydrateRaised
    /\ bcast' = {"system_log"}
    /\ UNCHANGED <<mission_states, current_task, retry_count, task_succeeded,
                   attempts, httpOps, missions, stopRequested, replanCalls, tool,
                   active_connections, sockets, broadcast,
                   files, vector_index, symbol_definitions, file_to_symbols, tool_calls,
                   execution_params, files_before,
                   requirements,
                   tool_result,
                   stream,
                   project_root,
                   runs,
                   terminal_messages>>

\* Phase 1: the Architect's reply
ArchitectReply ==
    /\ pc = "architect"
    /\ \E reply \in ArchitectReplies :
        /\ plan_replies' = [plan_replies EXCEPT !.architect = reply]
        /\ IF blueprint_ok(reply)
           THEN pc' = "auditor" /\ bcast' = {"phase"}
           ELSE pc' = "planner_end" /\ bcast' = abort_messages(reply)
    /\ LogUntouched
    /\ UNCHANGED <<mission_states, current_task, retry_count, task_succeeded, attempts, httpOps,
                   missions, stopRequested, replanCalls, tool, db,
                   active_connections, sockets, broadcast,
                   files, vector_index, symbol_definitions, file_to_symbols, tool_calls,
                   execution_params, files_before,
                   requirements,
                   tool_result,
                   stream,
                   project_root,
                   runs,
                   terminal_messages>>

\* Phase 2: _run_plan_audit
AuditorReply ==
    /\ pc = "auditor"
    /\ \E verdict \in AuditorReplies :
        /\ plan_replies' = [plan_replies EXCEPT !.auditor = verdict]
        /\ IF audit_passed(verdict)
           THEN pc' = "sequencer" /\ bcast' = {"phase"}
           ELSE pc' = "planner_end" /\ bcast' = abort_messages(verdict)
    /\ LogUntouched
    /\ UNCHANGED <<mission_states, current_task, retry_count, task_succeeded, attempts, httpOps,
                   missions, stopRequested, replanCalls, tool, db,
                   active_connections, sockets, broadcast,
                   files, vector_index, symbol_definitions, file_to_symbols, tool_calls,
                   execution_params, files_before,
                   requirements,
                   tool_result,
                   stream,
                   project_root,
                   runs,
                   terminal_messages>>

\* Phase 3: the Sequencer's reply; a plan goes to set_initial_plan
PlannerSetInitialPlan ==
    /\ pc = "sequencer"
    /\ \E reply \in SequencerReplies, steps \in SeqsUpTo(Descs, MaxSteps),
          dependencies \in BOOLEAN, g \in Goals :
        LET plan == final_plan_steps(steps, dependencies) IN
        /\ (reply = "plan") <=> (steps # <<>>)
        /\ final_plan_ok(reply) \/ ~dependencies
        /\ Len(plan) <= MaxSteps
        /\ plan_replies' = [plan_replies EXCEPT !.sequencer = reply]
        /\ IF final_plan_ok(reply)
           THEN /\ Install(set_initial_plan(Self, plan, g), TRUE,
                           [Op("set_initial_plan") EXCEPT !.by = "planner", !.steps = plan,
                                !.ok = TRUE, !.saved = TRUE])
                /\ bcast' = {"mission_log_updated", "aura_response"}
                /\ UNCHANGED <<usedIds, reordered>>
           ELSE /\ LogUntouched
                /\ bcast' = abort_messages(reply)
    /\ pc' = "planner_end"
    /\ UNCHANGED <<mission_states, current_task, retry_count, task_succeeded, attempts, httpOps,
                   missions, stopRequested, replanCalls, tool, db,
                   active_connections, sockets, broadcast,
                   files, vector_index, symbol_definitions, file_to_symbols, tool_calls,
                   execution_params, files_before,
                   requirements,
                   tool_result,
                   stream,
                   project_root,
                   runs,
                   terminal_messages>>

\* `finally` of background_task_handler's wrapper around run_planner_task
PlannerWrapperFinally ==
    /\ pc = "planner_end"
    /\ LogUntouched
    /\ plan_replies' = NoReplies
    /\ db' = close_db(db)
    /\ bcast' = {"agent_status_idle"}
    /\ pc' = "idle"
    /\ UNCHANGED <<mission_states, current_task, retry_count, task_succeeded, attempts, httpOps,
                   missions, stopRequested, replanCalls, tool,
                   active_connections, sockets, broadcast,
                   files, vector_index, symbol_definitions, file_to_symbols, tool_calls,
                   execution_params, files_before,
                   requirements,
                   tool_result,
                   stream,
                   project_root,
                   runs,
                   terminal_messages>>

Next ==
    \/ Dispatch
    \/ StartMission
    \/ RehydrateFails
    \/ LoopTop
    \/ AttemptTop
    \/ CoderReply
    \/ ToolReturn
    \/ AfterAttempts
    \/ ReplanReply
    \/ PolishPass
    \/ MissionCompletion
    \/ MissionException
    \/ MissionExcept
    \/ MissionFinally
    \/ WrapperFinally
    \/ RequestStop
    \/ PlannerStart
    \/ PlannerRehydrateFails
    \/ ArchitectReply
    \/ AuditorReply
    \/ PlannerSetInitialPlan
    \/ PlannerWrapperFinally

Spec == Init /\ [][Next]_vars

\* Every LLM call and every tool invocation returns and the event loop runs the
\* background task on: each step of a dispatched mission is taken once it stays
\* possible.  No fairness for a dispatch, a stop request or an exception.
MissionStep ==
    \/ StartMission
    \/ RehydrateFails
    \/ LoopTop
    \/ AttemptTop
    \/ CoderReply
    \/ ToolReturn
    \/ AfterAttempts
    \/ ReplanReply
    \/ PolishPass
    \/ MissionCompletion
    \/ MissionExcept
    \/ MissionFinally
    \/ WrapperFinally

LiveSpec == Init /\ [][Next]_vars /\ WF_vars(MissionStep)

LogSpec == Init /\ [][LogNext]_vars

\* ------------------------------------------------- task-CRUD endpoints
\* api/missions.py: get_project_mission_log loads the file into the request's own
\* MissionLogService, the endpoint applies one operation, the service saves.
\* The event loop serves a request while the mission's coroutine is suspended; the
\* requests followed are those served while it awaits an LLM reply or a tool.
MissionAwaiting == pc \in {"coder", "tool", "replan", "polish", "summary"}

HttpServe(s2, saved) ==
    /\ MissionAwaiting
    /\ httpOps < MaxHttpOps
    /\ httpOps' = httpOps + 1
    /\ disk' = save_log_to_disk(s2)
    /\ bcast' = IF saved THEN {"mission_log_updated"} ELSE {}
    /\ UNCHANGED <<tasks, next_task_id, initial_user_goal, usedIds, reordered, mission_states,
                   pc, current_task, retry_count, task_succeeded, attempts, missions, stopRequested,
                   replanCalls>>
    /\ UNCHANGED envVars
    /\ UNCHANGED terminal_messages
    /\ UNCHANGED <<tool, db>>

HttpAddTask ==
    \E d \in Descs :
        LET s0 == load_log_for_active_project(disk) IN
        /\ s0.next_task_id <= MaxId
        /\ HttpServe(add_task(s0, d), TRUE)
        /\ lastOp' = [Op("add_task") EXCEPT !.by = "http", !.desc = d, !.ok = TRUE,
                         !.saved = TRUE, !.newIds = {s0.next_task_id}]

HttpUpdateTask ==
    \E tid \in 1..MaxId, d \in Descs :
        LET s0 == load_log_for_active_project(disk)
            ok == update_task_ok(s0, tid, d) IN
        /\ HttpServe(update_task(s0, tid, d), ok)
        /\ lastOp' = [Op("update_task") EXCEPT !.by = "http", !.id = tid,
                         !.desc = IF ok THEN d ELSE "", !.ok = ok, !.saved = ok]

HttpDeleteTask ==
    \E tid \in 1..MaxId :
        LET s0 == load_log_for_active_project(disk)
            ok == delete_task_ok(s0, tid) IN
        /\ HttpServe(delete_task(s0, tid), ok)
        /\ lastOp' = [Op("delete_task") EXCEPT !.by = "http", !.id = tid, !.ok = ok,
                         !.saved = ok]

HttpReorderTasks ==
    \E ids \in SeqsUpTo(1..MaxId, MaxTasks) :
        LET s0 == load_log_for_active_project(disk)
            ok == reorder_tasks_ok(s0, ids) IN
        /\ HttpServe(reorder_tasks(s0, ids), ok)
        /\ lastOp' = [Op("reorder_tasks") EXCEPT !.by = "http",
                         !.ids = IF ok THEN ids ELSE <<>>, !.ok = ok, !.saved = ok,
                         !.perm = IsPermutationOf(ids, s0.tasks)]

ConcNext ==
    \/ Next
    \/ HttpAddTask
    \/ HttpUpdateTask
    \/ HttpDeleteTask
    \/ HttpReorderTasks

ConcSpec == Init /\ [][ConcNext]_vars

\* ------------------------------------------- Mission Control on its own
\* The registry under every order of its four operations for several users.
McUsers == Users \cup {"u3"}

McInit ==
    /\ LogInit
    /\ EnvInit
    /\ project_root = None
    /\ mission_states = [u \in McUsers |-> None]
    /\ pc = "idle"
    /\ current_task = 0
    /\ retry_count = 0
    /\ task_succeeded = FALSE
    /\ attempts = [i \in 1..MaxId |-> 0]
    /\ stopRequested = FALSE
    /\ replanCalls = 0
    /\ httpOps = 0
    /\ missions = 0
    /\ bcast = {}

\* everything but the registry and the record of the call
McFrame ==
    /\ UNCHANGED <<tasks, next_task_id, initial_user_goal, disk, usedIds, reordered>>
    /\ UNCHANGED <<pc, current_task, retry_count, task_succeeded, attempts, stopRequested,
                   replanCalls, httpOps, missions, bcast>>
    /\ UNCHANGED envVars
    /\ UNCHANGED terminal_messages
    /\ UNCHANGED <<tool, db>>

SetMissionRunning ==
    \E u \in McUsers :
        /\ mission_states' = set_mission_running(mission_states, u)
        /\ lastOp' = [Op("set_mission_running") EXCEPT !.by = u]
        /\ McFrame

RequestMissionStop ==
    \E u \in McUsers :
        /\ mission_states' = request_mission_stop(mission_states, u)
        /\ lastOp' = [Op("request_mission_stop") EXCEPT !.by = u, !.ok = mission_states[u] # None]
        /\ McFrame

\* the poll; ok is the value returned
IsMissionRunning ==
    \E u \in McUsers :
        /\ mission_states' = mission_states
        /\ lastOp' = [Op("is_mission_running") EXCEPT !.by = u,
                         !.ok = is_mission_running(mission_states, u)]
        /\ McFrame

SetMissionFinished ==
    \E u \in McUsers :
        /\ mission_states' = set_mission_finished(mission_states, u)
        /\ lastOp' = [Op("set_mission_finished") EXCEPT !.by = u]
        /\ McFrame

McNext ==
    \/ SetMissionRunning
    \/ RequestMissionStop
    \/ IsMissionRunning
    \/ SetMissionFinished

McSpec == McInit /\ [][McNext]_vars

\* ----------------------------------------------------------- WebSocket hub
\* core/websockets.py and the /ws/command_deck endpoint that drives it.  A coroutine
\* is followed from one suspension to the next: accept, the close of a replaced
\* socket, the receive loop, and each send of a broadcast.
Sockets == 1..MaxSockets

NoSocket == [pc |-> "unused", user |-> "", client |-> "", old |-> 0,
             alive |-> TRUE, closed |-> FALSE]
NoBroadcast == [phase |-> "idle", user |-> "", start |-> [c \in Clients |-> 0],
                pending |-> {}, received |-> {}, raised |-> FALSE]

\* self.active_connections[user_id][client_id] = websocket
bind(ac, u, c, k) == [ac EXCEPT ![u][c] = k]

\* WebSocketManager.disconnect: the entry of the key goes, whatever socket it holds
disconnect(ac, u, c) == [ac EXCEPT ![u][c] = 0]

HubFrame ==
    /\ UNCHANGED <<tasks, next_task_id, initial_user_goal, disk, lastOp, usedIds, reordered>>
    /\ UNCHANGED <<mission_states, pc, current_task, retry_count, task_succeeded, attempts,
                   stopRequested, replanCalls, httpOps, missions, bcast>>
    /\ UNCHANGED <<plan_replies, tool, db, execution_params, requirements, tool_result, stream, project_root, runs, terminal_messages>>
    /\ UNCHANGED projVars

\* a client opens /ws/command_deck: websocket_endpoint calls connect, which awaits accept
WsOpen ==
    \E k \in Sockets, u \in Users, c \in Clients :
        /\ sockets[k].pc = "unused"
        /\ \A j \in 1..(k - 1) : sockets[j].pc # "unused"
        /\ sockets' = [sockets EXCEPT ![k] = [NoSocket EXCEPT !.pc = "accepting", !.user = u,
                                                            !.client = c]]
        /\ UNCHANGED <<active_connections, broadcast>>
        /\ HubFrame

\* connect after accept: an existing socket of the key is closed first (close marks
\* it closed and suspends; on a socket that was closed already it raises and connect
\* ends without binding), otherwise the new socket is bound at once
WsAccepted ==
    \E k \in Sockets :
        LET u == sockets[k].user
            c == sockets[k].client
            old_socket == active_connections[u][c] IN
        /\ sockets[k].pc = "accepting"
        /\ IF old_socket = 0
           THEN /\ active_connections' = bind(active_connections, u, c, k)
                /\ sockets' = [sockets EXCEPT ![k].pc = "serving"]
           ELSE IF sockets[old_socket].closed
           THEN /\ sockets' = [sockets EXCEPT ![k].pc = "ended", ![k].closed = TRUE]
                /\ UNCHANGED active_connections
           ELSE /\ sockets' = [sockets EXCEPT ![k].pc = "closing", ![k].old = old_socket,
                                             ![old_socket].closed = TRUE]
                /\ UNCHANGED active_connections
        /\ UNCHANGED broadcast
        /\ HubFrame

\* old_socket.close returns and connect binds the new socket; when the peer of the
\* old socket was gone the close may have raised instead
WsCloseReturned ==
    \E k \in Sockets, close_raised \in BOOLEAN :
        LET u == sockets[k].user
            c == sockets[k].client IN
        /\ sockets[k].pc = "closing"
        /\ close_raised => ~sockets[sockets[k].old].alive
        /\ IF close_raised
           THEN /\ sockets' = [sockets EXCEPT ![k].pc = "ended", ![k].closed = TRUE]
                /\ UNCHANGED active_connections
           ELSE /\ active_connections' = bind(active_connections, u, c, k)
                /\ sockets' = [sockets EXCEPT ![k].pc = "serving"]
        /\ UNCHANGED broadcast
        /\ HubFrame

\* the client of a socket goes away
WsPeerGone ==
    \E k \in Sockets :
        /\ sockets[k].pc \in {"closing", "serving"}
        /\ sockets[k].alive
        /\ sockets' = [sockets EXCEPT ![k].alive = FALSE]
        /\ UNCHANGED <<active_connections, broadcast>>
        /\ HubFrame

\* receive_text raises in the endpoint of a socket that was closed or whose client is
\* gone: both except branches call disconnect(user_id, client_id)
WsHandlerDisconnect ==
    \E k \in Sockets :
        /\ sockets[k].pc = "serving"
        /\ sockets[k].closed \/ ~sockets[k].alive
        /\ active_connections' = disconnect(active_connections, sockets[k].user, sockets[k].client)
        /\ sockets' = [sockets EXCEPT ![k].pc = "ended", ![k].closed = TRUE]
        /\ UNCHANGED broadcast
        /\ HubFrame

\* broadcast_to_user up to gather: one send_to_client task per client bound now
BroadcastStart ==
    \E u \in Users :
        /\ broadcast.phase \in {"idle", "done"}
        /\ broadcast' = [phase |-> IF \E c \in Clients : active_connections[u][c] # 0
                                    THEN "sending" ELSE "done",
                         user |-> u,
                         start |-> active_connections[u],
                         pending |-> {c \in Clients : active_connections[u][c] # 0},
                         received |-> {}, raised |-> FALSE]
        /\ UNCHANGED <<active_connections, sockets>>
        /\ HubFrame

\* how send_json on socket k can end
SendOutcomes(k) ==
    IF sockets[k].closed THEN {"other_exception"}
    ELSE IF ~sockets[k].alive THEN {"sent", "WebSocketException", "other_exception"}
    ELSE {"sent"}

\* one send_to_client task of the gather: look the socket up, send, and on
\* WebSocketException disconnect the key; any other exception leaves the task
send_to_client(ac, u, c, outcome) ==
    IF ac[u][c] # 0 /\ outcome = "WebSocketException" THEN disconnect(ac, u, c) ELSE ac

SendToClient ==
    \E c \in broadcast.pending :
        LET u == broadcast.user
            k == active_connections[u][c] IN
        /\ broadcast.phase = "sending"
        /\ IF k = 0
           THEN /\ broadcast' = [broadcast EXCEPT !.pending = @ \ {c}]
                /\ UNCHANGED active_connections
           ELSE \E outcome \in SendOutcomes(k) :
                /\ active_connections' = send_to_client(active_connections, u, c, outcome)
                /\ broadcast' = [broadcast EXCEPT
                        !.pending = @ \ {c},
                        !.received = IF outcome = "sent" THEN @ \cup {k} ELSE @,
                        !.raised = @ \/ outcome = "other_exception"]
        /\ UNCHANGED sockets
        /\ HubFrame

\* gather returns, or raises the first exception of its tasks
BroadcastEnd ==
    /\ broadcast.phase = "sending"
    /\ broadcast.pending = {}
    /\ broadcast' = [broadcast EXCEPT !.phase = "done"]
    /\ UNCHANGED <<active_connections, sockets>>
    /\ HubFrame

HubNext ==
    \/ WsOpen
    \/ WsAccepted
    \/ WsCloseReturned
    \/ WsPeerGone
    \/ WsHandlerDisconnect
    \/ BroadcastStart
    \/ SendToClient
    \/ BroadcastEnd

HubSpec == Init /\ [][HubNext]_vars

\* ------------------------------------------- project files and their indices
\* A Python file by what the indices and rename_symbol see of it: its top-level
\* functions (name and the names each one calls), the names it imports with
\* `from ... import`, and the names it uses at module level.
Names == {"foo", "bar"}
Fn(n, calls) == [name |-> n, calls |-> calls]
Funcs == {Fn("foo", {}), Fn("bar", {}), Fn("main", {"foo"})}
Content(funcs, imports, top) ==
    [exists |-> TRUE, funcs |-> funcs, imports |-> imports, top |-> top]
Contents ==
    {Content(fs, im, tp) : fs \in {S \in SUBSET Funcs : Cardinality(S) <= 1},
                           im \in {{}, {"foo"}}, tp \in {{}, {"foo"}}}

\* VectorContextService.reindex_file: the chunks of the path go, one chunk per
\* top-level function of the content comes
chunks_of(f, c) == {[file_path |-> f, node_name |-> fn.name, document |-> fn] : fn \in c.funcs}
reindex_file_bug(vi, f, c) == vi \cup chunks_of(f, c)
reindex_file(vi, f, c) == {ch \in vi : ch.file_path # f} \cup chunks_of(f, c)

\* CodeIntelligenceService.update_index_for_file: the symbols listed for the path go,
\* the symbols of the content come and their names are listed
\* the call returns at once on a service that no load_for_project has given a project;
\* a content that ast.parse rejects leaves the path without symbols
SyntaxErrorText == [Content({Fn("foo", {})}, {}, {}) EXCEPT !.top = {"<syntax error>"}]
ast_parse_ok(c) == "<syntax error>" \notin c.top
symbols_of(f, c) == {[name |-> fn.name, file_path |-> f, calls |-> fn.calls] : fn \in c.funcs}
visitor_symbols(f, c) == IF ast_parse_ok(c) THEN symbols_of(f, c) ELSE {}
update_symbol_definitions(root, sd, fts, f, c) ==
    IF root = None THEN sd
    ELSE {sym \in sd : ~(sym.file_path = f /\ sym.name \in fts[f])} \cup visitor_symbols(f, c)
update_file_to_symbols(root, fts, f, c) ==
    IF root = None THEN fts
    ELSE [fts EXCEPT ![f] = {sym.name : sym \in visitor_symbols(f, c)}]

find_symbol_definition(sd, symbol_name) == {sym \in sd : sym.name = symbol_name}
find_references(sd, symbol_name) == {sym \in sd : symbol_name \in sym.calls}

\* RenameTransformer: Name nodes and function names are renamed, import aliases are not
RenameIn(S, old_name, new_name) ==
    {IF n = old_name THEN new_name ELSE n : n \in S}
rename_content(c, old_name, new_name) ==
    [c EXCEPT !.funcs = {Fn(IF fn.name = old_name THEN new_name ELSE fn.name,
                            RenameIn(fn.calls, old_name, new_name)) : fn \in c.funcs},
              !.top = RenameIn(c.top, old_name, new_name)]

\* add_function_to_file: a function of the same name is replaced, else the new one is appended
add_function(c, fn) ==
    IF c.exists
    THEN [c EXCEPT !.funcs = {g \in c.funcs : g.name # fn.name} \cup {fn}]
    ELSE Content({fn}, {}, {})

ToolOp(name, args, ok) == [Op(name) EXCEPT !.by = "tool", !.steps = args, !.ok = ok]

ProjFrame ==
    /\ UNCHANGED <<tasks, next_task_id, initial_user_goal, disk, usedIds, reordered>>
    /\ UNCHANGED <<mission_states, pc, current_task, retry_count, task_succeeded, attempts,
                   stopRequested, replanCalls, httpOps, missions, bcast>>
    /\ UNCHANGED <<plan_replies, tool, db, active_connections, sockets, broadcast, execution_params,
                   requirements,
                   tool_result,
                   stream,
                   runs,
                   terminal_messages>>
    /\ tool_calls < MaxToolCalls
    /\ tool_calls' = tool_calls + 1
    /\ files_before' = files

\* write_file(path, content): the file is written and, being a .py file, re-indexed
\* in the Vector Index
WriteFile ==
    \E f \in Files, c \in Contents :
        /\ files' = [files EXCEPT ![f] = c]
        /\ vector_index' = reindex_file(vector_index, f, c)
        /\ UNCHANGED <<symbol_definitions, file_to_symbols>>
        /\ lastOp' = ToolOp("write_file", <<f>>, TRUE)
        /\ UNCHANGED project_root
        /\ ProjFrame

\* add_function_to_file(path, function_code)
AddFunctionToFile ==
    \E f \in Files, fn \in Funcs :
        LET new_code == add_function(files[f], fn) IN
        /\ files' = [files EXCEPT ![f] = new_code]
        /\ vector_index' = reindex_file(vector_index, f, new_code)
        /\ symbol_definitions' = update_symbol_definitions(project_root, symbol_definitions,
                                                           file_to_symbols, f, new_code)
        /\ file_to_symbols' = update_file_to_symbols(project_root, file_to_symbols, f, new_code)
        /\ UNCHANGED project_root
        /\ lastOp' = ToolOp("add_function_to_file", <<f, new_code>>, TRUE)
        /\ ProjFrame

\* move_file(source_path, destination_path)
MoveFile ==
    \E src \in Files, dst \in Files :
        /\ src # dst
        /\ IF files[src].exists
           THEN files' = [files EXCEPT ![dst] = files[src], ![src] = Absent]
           ELSE UNCHANGED files
        /\ UNCHANGED <<vector_index, symbol_definitions, file_to_symbols>>
        /\ lastOp' = ToolOp("move_file", <<src, dst>>, files[src].exists)
        /\ UNCHANGED project_root
        /\ ProjFrame

\* delete_file(path)
DeleteFile ==
    \E f \in Files :
        /\ IF files[f].exists
           THEN files' = [files EXCEPT ![f] = Absent]
           ELSE UNCHANGED files
        /\ UNCHANGED <<vector_index, symbol_definitions, file_to_symbols>>
        /\ lastOp' = ToolOp("delete_file", <<f>>, files[f].exists)
        /\ UNCHANGED project_root
        /\ ProjFrame

\* rename_symbol(old_name, new_name): the files that the Symbol Index names for a
\* definition of old_name or for a symbol calling it are rewritten one after the
\* other; a file that cannot be read ends the loop with the files before it rewritten
RenameSymbol ==
    \E old_name \in Names, new_name \in Names :
        LET definitions == find_symbol_definition(symbol_definitions, old_name)
            references == find_references(symbol_definitions, old_name)
            files_to_modify == {sym.file_path : sym \in definitions \cup references}
            readable == {f \in files_to_modify : files[f].exists} IN
        /\ old_name # new_name
        /\ IF definitions = {}
           THEN /\ UNCHANGED files
                /\ lastOp' = ToolOp("rename_symbol", <<old_name, new_name>>, FALSE)
           ELSE IF readable = files_to_modify
           THEN /\ files' = [f \in Files |->
                                IF f \in files_to_modify
                                THEN rename_content(files[f], old_name, new_name)
                                ELSE files[f]]
                /\ lastOp' = ToolOp("rename_symbol", <<old_name, new_name>>, TRUE)
           ELSE /\ \E done \in SUBSET readable :
                    files' = [f \in Files |->
                                IF f \in done
                                THEN rename_content(files[f], old_name, new_name)
                                ELSE files[f]]
                /\ lastOp' = ToolOp("rename_symbol", <<old_name, new_name>>, FALSE)
        /\ UNCHANGED <<vector_index, symbol_definitions, file_to_symbols>>
        /\ UNCHANGED project_root
        /\ ProjFrame

\* run_reindex_task(file_path_str, content): the Vector Index is re-indexed for the
\* path from the content the request carries
RunReindexTask ==
    \E f \in Files, c \in Contents :
        /\ vector_index' = reindex_file(vector_index, f, c)
        /\ UNCHANGED <<files, symbol_definitions, file_to_symbols>>
        /\ lastOp' = ToolOp("reindex_file", <<f, c>>, TRUE)
        /\ UNCHANGED project_root
        /\ ProjFrame

\* run_code_reindex_task(file_path_str, content): load_for_project clears the Symbol
\* Index, update_index_for_file indexes the path from the content the request carries
RunCodeReindexTask ==
    \E f \in Files, c \in Contents \cup {SyntaxErrorText} :
        /\ project_root' = "proj"
        /\ symbol_definitions' = update_symbol_definitions("proj", {}, [g \in Files |-> {}], f, c)
        /\ file_to_symbols' = update_file_to_symbols("proj", [g \in Files |-> {}], f, c)
        /\ UNCHANGED <<files, vector_index>>
        /\ lastOp' = ToolOp("run_code_reindex_task", <<f, c>>, TRUE)
        /\ ProjFrame

\* run_initial_code_index: load_for_project clears the Symbol Index,
\* build_index_for_project indexes every .py file
BuildIndexForProject ==
    /\ project_root' = "proj"
    /\ symbol_definitions' = UNION {visitor_symbols(f, files[f]) : f \in Files}
    /\ file_to_symbols' = [f \in Files |-> {sym.name : sym \in visitor_symbols(f, files[f])}]
    /\ UNCHANGED <<files, vector_index>>
    /\ lastOp' = ToolOp("build_index_for_project", <<>>, TRUE)
    /\ ProjFrame

\* run_initial_project_index: reindex_entire_project drops the collection and
\* re-indexes every file
ReindexEntireProject ==
    /\ vector_index' = UNION {chunks_of(f, files[f]) : f \in Files}
    /\ UNCHANGED <<files, symbol_definitions, file_to_symbols>>
    /\ lastOp' = ToolOp("reindex_entire_project", <<>>, TRUE)
    /\ UNCHANGED project_root
    /\ ProjFrame

ProjNext ==
    \/ WriteFile
    \/ AddFunctionToFile
    \/ MoveFile
    \/ DeleteFile
    \/ RenameSymbol
    \/ RunReindexTask
    \/ BuildIndexForProject
    \/ ReindexEntireProject

ProjSpec == ProjInit /\ [][ProjNext]_vars

\* the Symbol Index of one CodeIntelligenceService under every call that reaches it,
\* with the files changing under it
SymNext ==
    \/ WriteFile
    \/ AddFunctionToFile
    \/ DeleteFile
    \/ RunCodeReindexTask
    \/ BuildIndexForProject

SymSpec == ProjInit /\ [][SymNext]_vars

\* ------------------------------------------------- path arguments of a tool
\* A path is the list of its segments and whether it starts at the root.
PATH_PARAM_KEYS == {"path", "source_path", "destination_path", "requirements_path"}
Segments == {"..", "ws", "proj", "src"}
PathOf(abs, segs) == [abs |-> abs, segs |-> segs]
Paths == {PathOf(abs, segs) : abs \in BOOLEAN,
                              segs \in UNION {[1..n -> Segments] : n \in 0..MaxSegs}}
active_project_path == PathOf(TRUE, <<"ws", "proj">>)

\* Path.resolve on an absolute path: a `..` drops the segment before it, and stays at the root
RECURSIVE resolve_segs(_, _)
resolve_segs(acc, rest) ==
    IF rest = <<>> THEN acc
    ELSE IF Head(rest) = ".."
         THEN resolve_segs(IF acc = <<>> THEN <<>> ELSE SubSeq(acc, 1, Len(acc) - 1), Tail(rest))
         ELSE resolve_segs(Append(acc, Head(rest)), Tail(rest))

\* _prepare_parameters on one path argument: an empty string and an absolute path
\* stay as given, a relative path is joined to the project root and resolved
prepare_path(base_path, p) ==
    IF p.segs = <<>> /\ ~p.abs THEN p
    ELSE IF ~p.abs THEN PathOf(TRUE, resolve_segs(<<>>, base_path.segs \o p.segs))
    ELSE p

\* the file a path names lies in the project root or below it
is_inside(base_path, p) ==
    /\ p.abs
    /\ LET r == resolve_segs(<<>>, p.segs) IN
       /\ Len(r) >= Len(base_path.segs)
       /\ SubSeq(r, 1, Len(base_path.segs)) = base_path.segs

\* run_tool with a path argument: the parameters are prepared and the action function is called
RunToolWithPath ==
    \E key \in PATH_PARAM_KEYS, p \in Paths :
        /\ execution_params' = [key |-> key, given |-> p,
                                value |-> prepare_path(active_project_path, p), ran |-> TRUE]
        /\ UNCHANGED <<tasks, next_task_id, initial_user_goal, disk, lastOp, usedIds, reordered>>
        /\ UNCHANGED <<mission_states, pc, current_task, retry_count, task_succeeded, attempts,
                       stopRequested, replanCalls, httpOps, missions, bcast>>
        /\ UNCHANGED <<plan_replies, tool, db, active_connections, sockets, broadcast, requirements, tool_result, stream, project_root, runs, terminal_messages>>
        /\ UNCHANGED projVars

PathNext ==
    \/ RunToolWithPath

PathSpec == Init /\ [][PathNext]_vars

\* ----------------------------------------------------- requirements file
\* A dependency is a package name, a version specifier and a version.
Pkgs == {"requests", "flask"}
Specifiers == {"==", ">=", "~="}
Versions == {"1"}
Dependencies == [name : Pkgs, spec : Specifiers, ver : Versions]
DependencyLists == UNION {[1..n -> Dependencies] : n \in 0..MaxDeps}

\* dep.split('==')[0].split('>')[0].split('<')[0]: the text before the first `==`,
\* `>` or `<`; a dependency written with another specifier stays whole
package_name(dep) ==
    IF dep.spec \in {"==", ">=", "<=", ">", "<"}
    THEN [name |-> dep.name, rest |-> <<>>]
    ELSE [name |-> dep.name, rest |-> <<dep.spec, dep.ver>>]

existing_packages(lines) == {package_name(lines[i]) : i \in 1..Len(lines)}

\* the loop over `dependencies`: a dependency whose package name is not among the
\* existing ones is written at the end of the file and its name is remembered
RECURSIVE add_dependencies(_, _, _)
add_dependencies(lines, existing, deps) ==
    IF deps = <<>> THEN lines
    ELSE IF package_name(Head(deps)) \notin existing
         THEN add_dependencies(Append(lines, Head(deps)),
                               existing \cup {package_name(Head(deps))}, Tail(deps))
         ELSE add_dependencies(lines, existing, Tail(deps))

\* add_dependency_to_requirements(path, dependencies)
AddDependencyToRequirements ==
    \E deps \in DependencyLists :
        /\ requirements' = add_dependencies(requirements, existing_packages(requirements), deps)
        /\ lastOp' = ToolOp("add_dependency_to_requirements", deps, deps # <<>>)
        /\ UNCHANGED <<tasks, next_task_id, initial_user_goal, disk, usedIds, reordered>>
        /\ UNCHANGED <<mission_states, pc, current_task, retry_count, task_succeeded, attempts,
                       stopRequested, replanCalls, httpOps, missions, bcast>>
        /\ UNCHANGED <<plan_replies, tool, db, active_connections, sockets, broadcast, execution_params,
                       tool_result,
                   stream,
                   project_root,
                   runs,
                   terminal_messages>>
        /\ UNCHANGED projVars

ReqNext ==
    \/ AddDependencyToRequirements

ReqSpec == Init /\ [][ReqNext]_vars

\* ------------------------------------------- classification of tool results
FILESYSTEM_TOOLS ==
    {"write_file", "append_to_file", "create_directory", "create_package_init",
     "delete_directory", "copy_file", "move_file", "delete_file",
     "add_dependency_to_requirements"}
ActionIds == FILESYSTEM_TOOLS \cup {"read_file", "rename_symbol"}

\* run_tool: result.get('status') in ["failure", "error"], without lower-casing
run_tool_status(r) ==
    IF r.type = "str" /\ r.starts_error THEN "FAILURE"
    ELSE IF r.type = "dict" /\ r.status \in {"failure", "error"} THEN "FAILURE"
    ELSE "SUCCESS"

\* the string run_tool returns when the action function raises:
\* "<cross mark> Error executing Blueprint ...", which neither starts with "error"
\* nor holds "failed"
exception_result == [type |-> "str", starts_error |-> FALSE, has_failed |-> FALSE, status |-> "missing"]

\* the string an action function returns from its own `except Exception`:
\* "An unexpected error occurred while ...: <e>"
unexpected_error_message == [type |-> "str", starts_error |-> FALSE, has_failed |-> FALSE, status |-> "missing"]

\* what run_tool broadcasts once the action function has returned
run_tool_broadcasts(action_id, status) ==
    IF status = "SUCCESS" /\ action_id \in FILESYSTEM_TOOLS
    THEN {"file_tree_updated"} \cup (IF action_id = "write_file" THEN {"file_content_updated"} ELSE {})
    ELSE {}

\* run_tool for a registered tool, then _is_result_an_error on what it returned
RunToolAndClassify ==
    \E action_id \in ActionIds, r \in ToolResults, raised \in BOOLEAN, caught \in BOOLEAN :
        LET result == IF raised THEN exception_result ELSE r
            status == IF raised THEN "FAILURE" ELSE run_tool_status(r) IN
        /\ raised => r.type = "none"
        /\ caught => (~raised /\ r = unexpected_error_message)
        /\ tool_result' = [action_id |-> action_id, result |-> result, raised |-> raised,
                           caught |-> caught,
                           status |-> status,
                           broadcasts |-> IF raised THEN {} ELSE run_tool_broadcasts(action_id, status),
                           is_error |-> is_result_an_error(result)]
        /\ UNCHANGED <<tasks, next_task_id, initial_user_goal, disk, lastOp, usedIds, reordered>>
        /\ UNCHANGED <<mission_states, pc, current_task, retry_count, task_succeeded, attempts,
                       stopRequested, replanCalls, httpOps, missions, bcast>>
        /\ UNCHANGED <<plan_replies, tool, db, active_connections, sockets, broadcast, execution_params,
                       requirements,
                   stream,
                   project_root,
                   runs,
                   terminal_messages>>
        /\ UNCHANGED projVars

ResultNext ==
    \/ RunToolAndClassify

ResultSpec == Init /\ [][ResultNext]_vars

\* ------------------------------------------------------- the LLM streamer
\* unified_llm_streamer once the LLM server has answered 200, next to the Mission
\* Control operations of McSpec.  The lines of the reply by what the loop does with
\* them: an envelope that is forwarded, the envelope that carries final_response
\* (forwarded too), a line that is no JSON, an empty read.
LineKinds == {"envelope", "final", "junk", "empty"}
CancelledReply == [kind |-> "cancelled", starts_error |-> TRUE]
UnexpectedError == [kind |-> "unexpected", starts_error |-> FALSE]
FinalReply(reply) == [kind |-> IF reply = "" THEN "empty" ELSE "reply", starts_error |-> FALSE]

\* if not await mission_control.is_mission_running(str(user_id))
poll_says_stop_bug(ms, u) == FALSE
poll_says_stop(ms, u) == ~is_mission_running(ms, u)

StreamFrame ==
    /\ UNCHANGED <<tasks, next_task_id, initial_user_goal, disk, lastOp, usedIds, reordered>>
    /\ UNCHANGED <<mission_states, pc, current_task, retry_count, task_succeeded, attempts,
                   stopRequested, replanCalls, httpOps, missions, bcast>>
    /\ UNCHANGED <<plan_replies, tool, db, active_connections, sockets, broadcast, execution_params,
                   requirements, tool_result,
                   project_root,
                   runs,
                   terminal_messages>>
    /\ UNCHANGED projVars

\* the POST to the LLM server returned 200 and the reply starts to stream
StreamStart ==
    /\ stream.pc = "idle"
    /\ \E u \in Users, lines \in SeqsUpTo(LineKinds, MaxLines) :
        stream' = [NoStream EXCEPT !.pc = "poll", !.user = u, !.lines = lines]
    /\ StreamFrame

\* `while not response.content.at_eof()` and the poll of Mission Control
StreamPoll ==
    /\ stream.pc = "poll"
    /\ IF stream.lines = <<>>
       THEN stream' = [stream EXCEPT !.pc = "returned", !.result = FinalReply(stream.final_reply)]
       ELSE IF poll_says_stop(mission_states, stream.user)
       THEN stream' = [stream EXCEPT !.pc = "returned", !.polls = @ + 1, !.result = CancelledReply]
       ELSE stream' = [stream EXCEPT !.pc = "read", !.polls = @ + 1]
    /\ StreamFrame

\* readline returns and the line is handled
StreamRead ==
    /\ stream.pc = "read"
    /\ LET line == Head(stream.lines) IN
       stream' = [stream EXCEPT !.pc = "poll", !.lines = Tail(@), !.reads = @ + 1,
                                !.forwarded = IF line \in {"envelope", "final"} THEN @ + 1 ELSE @,
                                !.final_reply = IF line = "final" THEN "reply" ELSE @]
    /\ StreamFrame

\* readline or the broadcast raises: `except Exception` returns its message
StreamRaises ==
    /\ stream.pc = "read"
    /\ stream' = [stream EXCEPT !.pc = "returned", !.result = UnexpectedError]
    /\ StreamFrame

StreamNext ==
    \/ SetMissionRunning
    \/ RequestMissionStop
    \/ IsMissionRunning
    \/ SetMissionFinished
    \/ StreamStart
    \/ StreamPoll
    \/ StreamRead
    \/ StreamRaises

StreamSpec == McInit /\ [][StreamNext]_vars

\* ----------------------------------------- missions of one user side by side
\* dispatch_agent_mission queues run_dispatch_task without looking at Mission Control,
\* so a second dispatch of the user runs next to the first; the stop endpoint calls
\* request_mission_stop.  A run is followed from the acknowledged dispatch to the end
\* of execute_mission_in_background: queued, loop (top of `while True`), task (top of
\* the attempt loop), halted / completed / failed (execute_mission has returned), ended.
RunExecuting == {"loop", "task", "halted", "completed", "failed"}
RunInLoop == {"loop", "task"}

RunFrame ==
    /\ UNCHANGED <<tasks, next_task_id, initial_user_goal, disk, lastOp, usedIds, reordered>>
    /\ UNCHANGED <<pc, current_task, retry_count, task_succeeded, attempts,
                   stopRequested, replanCalls, httpOps, missions, bcast>>
    /\ UNCHANGED <<plan_replies, tool, db, active_connections, sockets, broadcast, execution_params,
                   requirements, tool_result, stream, project_root,
                   terminal_messages>>
    /\ UNCHANGED projVars

\* POST /dispatch: the background task is queued and the request is acknowledged
RunDispatch ==
    \E m \in Runs, todo \in 0..MaxRunTasks :
        /\ runs[m].pc = "none"
        /\ \A j \in 1..(m - 1) : runs[j].pc # "none"
        /\ runs' = [runs EXCEPT ![m] = [NoRun EXCEPT !.pc = "queued", !.todo = todo]]
        /\ UNCHANGED mission_states
        /\ RunFrame

\* run_dispatch_task reaches execute_mission_in_background: set_mission_running
RunSetRunning ==
    \E m \in Runs :
        /\ runs[m].pc = "queued"
        /\ mission_states' = set_mission_running(mission_states, Me)
        /\ runs' = [runs EXCEPT ![m].pc = "loop"]
        /\ RunFrame

\* the background task fails before execute_mission_in_background is reached
RunNeverStarts ==
    \E m \in Runs :
        /\ runs[m].pc = "queued"
        /\ runs' = [runs EXCEPT ![m].pc = "ended"]
        /\ UNCHANGED mission_states
        /\ RunFrame

\* top of `while True`: the poll, then the pending tasks
RunLoopTop ==
    \E m \in Runs :
        /\ runs[m].pc = "loop"
        /\ runs' = [runs EXCEPT ![m].pc =
                        IF ~is_mission_running(mission_states, Me) THEN "halted"
                        ELSE IF runs[m].todo = 0 THEN "completed"
                        ELSE "task"]
        /\ UNCHANGED mission_states
        /\ RunFrame

\* top of the attempt loop: the poll, then the task is executed and marked done
RunTask ==
    \E m \in Runs :
        /\ runs[m].pc = "task"
        /\ IF is_mission_running(mission_states, Me)
           THEN runs' = [runs EXCEPT ![m].pc = "loop", ![m].todo = @ - 1, ![m].executed = @ + 1]
           ELSE runs' = [runs EXCEPT ![m].pc = "loop"]
        /\ UNCHANGED mission_states
        /\ RunFrame

\* an exception inside execute_mission: mission_failure is broadcast
RunRaises ==
    \E m \in Runs :
        /\ runs[m].pc \in RunInLoop
        /\ runs' = [runs EXCEPT ![m].pc = "failed"]
        /\ UNCHANGED mission_states
        /\ RunFrame

\* the finally of execute_mission_in_background: set_mission_finished
RunFinally ==
    \E m \in Runs :
        /\ runs[m].pc \in {"halted", "completed", "failed"}
        /\ mission_states' = set_mission_finished(mission_states, Me)
        /\ runs' = [runs EXCEPT ![m].pc = "ended"]
        /\ RunFrame

\* POST /{project_name}/stop: request_mission_stop.  Each run remembers a stop handled
\* while it was queued, and a stop that set the flag to false while it was in its loop.
RunStopRequest ==
    /\ mission_states' = request_mission_stop(mission_states, Me)
    /\ runs' = [m \in Runs |->
                  [runs[m] EXCEPT
                     !.stop_before_start = @ \/ runs[m].pc = "queued",
                     !.stopped = @ \/ (runs[m].pc \in RunInLoop /\ mission_states[Me] # None)]]
    /\ RunFrame

RunNext ==
    \/ RunDispatch
    \/ RunSetRunning
    \/ RunNeverStarts
    \/ RunLoopTop
    \/ RunTask
    \/ RunRaises
    \/ RunFinally
    \/ RunStopRequest

RunSpec == Init /\ [][RunNext]_vars

\* ================================================================ properties
OnDisk == [tasks |-> disk.tasks, next_task_id |-> next_task_id,
           initial_user_goal |-> disk.initial_goal]

\* C1: once request_mission_stop has hit the running mission's entry, the Conductor
\* announces no further task (no active_task_updated) and broadcasts no
\* mission_success.
C1_StopHaltsMission ==
    [][stopRequested =>
        ("active_task_updated" \notin bcast' /\ "mission_success" \notin bcast')]_vars

\* C2: when the Conductor is back at the top of its loop after the active task
\* failed its first and its second attempt, and no stop was requested, exactly one
\* strategic re-plan was invoked for that task.
C2_OneReplanAfterTwoFailures ==
    (/\ pc = "loop"
     /\ current_task # 0
     /\ ~task_succeeded
     /\ retry_count = MAX_RETRIES_PER_TASK + 1
     /\ ~stopRequested) => replanCalls = 1

C2_Witness ==
    /\ pc = "loop"
    /\ current_task # 0
    /\ ~task_succeeded
    /\ retry_count = MAX_RETRIES_PER_TASK + 1
    /\ ~stopRequested
    /\ replanCalls = 1

\* C3: during one mission no task id is attempted more than
\* MAX_RETRIES_PER_TASK + 1 times.
C3_AtMostTwoAttempts ==
    \A i \in 1..MaxId : attempts[i] <= MAX_RETRIES_PER_TASK + 1

\* C4 (as claimed): the task ids are strictly increasing in list order in every
\* reachable state of the Mission Log.
C4_StrictlyIncreasing ==
    StrictlyIncreasing(tasks) /\ StrictlyIncreasing(disk.tasks)

\* C4 (amended): the task ids are pairwise distinct in every reachable state, and
\* strictly increasing in list order as long as no reorder_tasks call has changed
\* the order since the last set_initial_plan.
C4_DistinctAndIncreasingUntilReorder ==
    /\ DistinctIds(tasks)
    /\ DistinctIds(disk.tasks)
    /\ ~reordered => (StrictlyIncreasing(tasks) /\ StrictlyIncreasing(disk.tasks))

C4_Witness ==
    /\ ~reordered
    /\ Len(tasks) >= 2
    /\ tasks[1].id # 1
    /\ lastOp.op \in {"delete_task", "replace_tasks_from_id", "add_task"}

\* C5: no operation other than set_initial_plan creates a task whose id an earlier
\* task of the project already had.
C5_NoIdReuse ==
    [][lastOp'.op # "set_initial_plan" => lastOp'.newIds \cap usedIds = {}]_vars

\* C6: next_id is positive and strictly greater than every id in the task list.
C6_NextIdAboveAll ==
    /\ next_task_id > 0
    /\ \A i \in 1..Len(tasks) : next_task_id > tasks[i].id

C6_Witness ==
    /\ lastOp.op = "load"
    /\ Len(tasks) >= 1
    /\ next_task_id > Len(tasks) + 1

\* C8: reorder_tasks succeeds exactly when the list is a permutation of the current
\* ids, and then the list holds the same tasks in the given order and is saved;
\* otherwise the list, the file and next_id are unchanged and nothing is saved or
\* broadcast.
C8_ReorderOnlyPermutation ==
    [][lastOp'.op = "reorder_tasks" =>
        /\ lastOp'.ok <=> lastOp'.perm
        /\ lastOp'.ok =>
            /\ Len(tasks') = Len(tasks)
            /\ \A k \in 1..Len(tasks') :
                /\ tasks'[k].id = lastOp'.ids[k]
                /\ \E i \in 1..Len(tasks) : tasks[i] = tasks'[k]
            /\ \A i \in 1..Len(tasks) : \E k \in 1..Len(tasks') : tasks'[k] = tasks[i]
            /\ disk'.tasks = tasks'
            /\ lastOp'.saved
        /\ ~lastOp'.ok =>
            /\ tasks' = tasks
            /\ disk' = disk
            /\ next_task_id' = next_task_id
            /\ ~lastOp'.saved]_vars

C8_Witness ==
    /\ lastOp.op = "reorder_tasks"
    /\ lastOp.ok
    /\ Len(tasks) = 3
    /\ ~StrictlyIncreasing(tasks)

\* C9: replace_tasks_from_id keeps the tasks before start_id as they were, drops
\* start_id and everything after it, and appends one pending task per step, in
\* order, with ids the list did not hold; an unknown start_id leaves the log as it is.
C9_ReplaceFromId ==
    [][lastOp'.op = "replace_tasks_from_id" =>
        LET i == IndexOfId(tasks, lastOp'.id)
            steps == lastOp'.steps IN
        IF i = 0
        THEN tasks' = tasks /\ disk' = disk /\ next_task_id' = next_task_id
        ELSE /\ Len(tasks') = (i - 1) + Len(steps)
             /\ \A k \in 1..(i - 1) : tasks'[k] = tasks[k]
             /\ \A k \in 1..Len(steps) :
                 /\ tasks'[i - 1 + k].description = steps[k]
                 /\ tasks'[i - 1 + k].done = FALSE
                 /\ tasks'[i - 1 + k].last_error = None
                 /\ tasks'[i - 1 + k].id \notin Ids(tasks)
             /\ DistinctIds(tasks')
             /\ disk'.tasks = tasks']_vars

C9_Witness ==
    /\ lastOp.op = "replace_tasks_from_id"
    /\ lastOp.ok
    /\ lastOp.steps # <<>>
    /\ Len(tasks) > Len(lastOp.steps)

\* C7: every Mission Log mutation that reaches the file, the Conductor's included,
\* writes the result of applying that operation to the log as persisted right
\* before it, so that no task-CRUD request served during the mission is lost.
C7_SerialMutations ==
    [][(lastOp'.saved /\ lastOp'.by = "conductor") =>
        disk'.tasks =
            (IF lastOp'.op = "mark_task_as_done"
             THEN mark_task_as_done(OnDisk, lastOp'.id).tasks
             ELSE replace_tasks_from_id(OnDisk, lastOp'.id, lastOp'.steps).tasks)]_vars

\* C10: in the Conductor's task list and in the file, every task with done = true
\* has last_error = null.
C10_DoneHasNoError ==
    /\ \A i \in 1..Len(tasks) : tasks[i].done => tasks[i].last_error = None
    /\ \A i \in 1..Len(disk.tasks) : disk.tasks[i].done => disk.tasks[i].last_error = None

C10_Witness ==
    /\ pc = "after"
    /\ task_succeeded
    /\ retry_count = 1
    /\ tasks[IndexOfId(tasks, current_task)].done

\* C11: a second mark_task_as_done call on the id the previous call marked returns
\* success and leaves the task list, the file and next_id exactly as the first call
\* left them; nothing is saved again.
C11_MarkDoneIdempotent ==
    [][(/\ lastOp.op = "mark_task_as_done"
        /\ lastOp.ok
        /\ lastOp'.op = "mark_task_as_done"
        /\ lastOp'.id = lastOp.id) =>
            /\ lastOp'.ok
            /\ ~lastOp'.saved
            /\ tasks' = tasks
            /\ disk' = disk
            /\ next_task_id' = next_task_id
            /\ initial_user_goal' = initial_user_goal]_vars

\* a call that found its task done already: success, nothing saved
C11_Witness ==
    /\ lastOp.op = "mark_task_as_done"
    /\ lastOp.ok
    /\ ~lastOp.saved
    /\ tasks[IndexOfId(tasks, lastOp.id)].done

\* the three replies that let the workflow reach set_initial_plan
PlanAccepted(r) == r.architect = "blueprint" /\ r.auditor = "true" /\ r.sequencer = "plan"

\* C12: the planning workflow starts from the log as persisted, and unless the
\* Architect returned a blueprint, the Auditor audit_passed = true and the
\* Sequencer a non-empty plan, no step of it calls set_initial_plan or changes the
\* tasks, the goal, next_id or the file.
C12_AbortedPlanLeavesLog ==
    [][/\ (pc = "idle" /\ pc' = "architect") =>
            /\ disk' = disk
            /\ tasks' = disk.tasks
            /\ initial_user_goal' = disk.initial_goal
       /\ (pc \in PlannerStages \cup {"planner_end"} /\ ~PlanAccepted(plan_replies')) =>
            /\ ~(lastOp'.op = "set_initial_plan")
            /\ tasks' = tasks
            /\ next_task_id' = next_task_id
            /\ initial_user_goal' = initial_user_goal
            /\ disk' = disk]_vars

\* a workflow stopped by the Auditor's audit_passed = false, over a log that holds
\* an earlier plan
C12_Witness ==
    /\ pc = "planner_end"
    /\ plan_replies.auditor = "false"
    /\ disk.tasks # <<>>
    /\ tasks = disk.tasks

\* C13: is_mission_running(u) is true in every state in which u has no entry in
\* Mission Control, whatever was done for u or for other users before, and a poll
\* for such a user returns true.
C13_AbsentMeansRunning ==
    /\ \A u \in DOMAIN mission_states :
        mission_states[u] = None => is_mission_running(mission_states, u)
    /\ (lastOp.op = "is_mission_running" /\ mission_states[lastOp.by] = None) => lastOp.ok

\* a poll for a user without an entry while another user's mission is being stopped
C13_Witness ==
    /\ lastOp.op = "is_mission_running"
    /\ mission_states[lastOp.by] = None
    /\ lastOp.ok
    /\ \E v \in DOMAIN mission_states : v # lastOp.by /\ mission_states[v] = "False"

\* C14: a tool invocation that returns after a stop was requested returns the
\* outcome it would have had without the stop.
C14_StopLeavesToolAlone ==
    [][(pc = "tool" /\ pc' # "tool" /\ ~is_mission_running(mission_states, Me)) =>
        (task_succeeded' = ~tool.fails)]_vars

\* C15: when broadcast_to_user has finished, every socket that was bound for the
\* user when it started has received the message or is no longer bound.
C15_BroadcastReachesOrDisconnects ==
    broadcast.phase = "done" =>
        \A c \in Clients :
            LET k == broadcast.start[c] IN
            k # 0 => (k \in broadcast.received \/ active_connections[broadcast.user][c] # k)

\* C16: whenever connect replaces the socket bound to a (user, client) pair, the
\* replaced socket has been closed.
C16_ReplacedSocketClosed ==
    [][\A u \in Users, c \in Clients :
        (active_connections[u][c] # 0 /\ active_connections'[u][c] # 0
            /\ active_connections'[u][c] # active_connections[u][c]) =>
                sockets[active_connections[u][c]].closed]_vars

\* the tools that create, rewrite, rename, move or delete a project file
FileTools == {"write_file", "add_function_to_file", "move_file", "delete_file", "rename_symbol"}

\* C17: after a successful tool call that changed project files, the Vector Index
\* and the Symbol Index hold for each changed file exactly the entries derived from
\* its new content.
C17_IndicesFollowFiles ==
    [][(lastOp'.op \in FileTools /\ lastOp'.ok) =>
        \A f \in Files :
            files'[f] # files[f] =>
                /\ {ch \in vector_index' : ch.file_path = f} = chunks_of(f, files'[f])
                /\ {sym \in symbol_definitions' : sym.file_path = f} = symbols_of(f, files'[f])]_vars

\* what a rename that reaches every definition and every reference makes of a file
full_rename(c, old_name, new_name) ==
    [rename_content(c, old_name, new_name) EXCEPT
        !.imports = RenameIn(c.imports, old_name, new_name)]

\* C20: after a successful rename_symbol(old, new) every project file defines and
\* references new wherever it defined or referenced old (in a function, in an
\* import, at module level), and the Symbol Index holds no definition of old and
\* holds the definitions of new.
C20_RenameReachesEveryUse ==
    [][(lastOp'.op = "rename_symbol" /\ lastOp'.ok) =>
        LET old_name == lastOp'.steps[1]
            new_name == lastOp'.steps[2] IN
        /\ \A f \in Files : files'[f] = full_rename(files[f], old_name, new_name)
        /\ find_symbol_definition(symbol_definitions', old_name) = {}
        /\ \A f \in Files : \A fn \in files'[f].funcs :
            fn.name = new_name =>
                [name |-> fn.name, file_path |-> f, calls |-> fn.calls] \in symbol_definitions']_vars

\* C19: once an exception has escaped a step of the Conductor loop, the next step of
\* the mission broadcasts mission_failure, the step after it removes the user's
\* Mission Control entry and broadcasts agent_status idle, the background task then
\* ends, and on the way mission_success is never broadcast and no task is selected,
\* attempted or changed.
ExceptionPath == {"except", "finally", "wrapper"}
C18_PathsStayInProject ==
    execution_params.ran => is_inside(active_project_path, execution_params.value)

\* the names a file defines, calls, imports or uses at module level
names_used(c) ==
    {fn.name : fn \in c.funcs} \cup UNION {fn.calls : fn \in c.funcs} \cup c.imports \cup c.top

\* C21: when rename_symbol(A, B) has succeeded on a project that did not use B and
\* rename_symbol(B, A) is the next call, that call succeeds too and every file is
\* back to its content before the first rename.
C21_RenameRoundTrip ==
    [][(/\ lastOp.op = "rename_symbol" /\ lastOp.ok
        /\ lastOp'.op = "rename_symbol"
        /\ lastOp'.steps = <<lastOp.steps[2], lastOp.steps[1]>>
        /\ \A f \in Files : lastOp.steps[2] \notin names_used(files_before[f]))
       => (lastOp'.ok /\ files' = files_before)]_vars

lines_of_package(lines, pkg) == {i \in 1..Len(lines) : lines[i].name = pkg}

\* C24: after add_dependency_to_requirements the requirements file holds at most one
\* line for each package, whatever version specifiers the package was given under
\* and however often a list repeats it, and a call that repeats the call before it
\* leaves the file as it was.
C24_OneLinePerPackage ==
    [][(lastOp'.op = "add_dependency_to_requirements") =>
        /\ \A pkg \in Pkgs : Cardinality(lines_of_package(requirements', pkg)) <= 1
        /\ (lastOp.op = "add_dependency_to_requirements" /\ lastOp.steps = lastOp'.steps)
               => requirements' = requirements]_vars

\* the positions of a mission at which its service has loaded the log and no
\* Mission Log operation is under way
MissionOwnsLog ==
    {"loop", "attempt", "coder", "tool", "after", "replan", "polish", "summary",
     "except", "finally", "wrapper", "done"}

\* C22: while a mission's service holds the loaded log and no Mission Log operation
\* is under way, the task list in mission_log.json equals the service's task list
\* field for field, also right after a failed attempt's last_error was recorded.
C22_FileEqualsMemory ==
    (pc \in MissionOwnsLog /\ db.held) => disk.tasks = tasks

\* C25: the step that ends a planning or dispatch background task broadcasts
\* agent_status idle and leaves no DB session that the task opened still open,
\* however the task came to its end.
C25_TaskEndsClosedAndIdle ==
    [][((pc = "wrapper" /\ pc' = "done") \/ (pc = "planner_end" /\ pc' = "idle"))
          => ("agent_status_idle" \in bcast' /\ db'.session # "open")]_vars

\* the tasks of a list that are still to do, by position
PendingAt(ts) == {i \in 1..Len(ts) : ~ts[i].done}
\* tid is the id of the first task of the list that is still to do
IsFirstPending(ts, tid) ==
    /\ PendingAt(ts) # {}
    /\ \E i \in PendingAt(ts) :
        /\ ts[i].id = tid
        /\ \A j \in PendingAt(ts) : i <= j

\* C26: an iteration that goes on to a task selects the first pending task of the
\* list and broadcasts active_task_updated in that step; whenever the coder or a
\* tool is at work for a task, that task is the first pending one; and the task
\* stays the same from its selection to the end of its attempts.
C26_FirstPendingIsActive ==
    [][/\ (pc = "loop" /\ pc' = "attempt") =>
            /\ IsFirstPending(tasks', current_task')
            /\ "active_task_updated" \in bcast'
       /\ pc' \in {"coder", "tool"} => IsFirstPending(tasks', current_task')
       /\ (pc \in {"attempt", "coder", "tool"} /\ pc' \in {"attempt", "coder", "tool", "after"})
            => current_task' = current_task]_vars

\* a tool is at work for a task that follows a finished one in the list
C26_Witness ==
    /\ pc = "tool"
    /\ IndexOfId(tasks, current_task) > 1
    /\ tasks[1].done

\* the positions of a mission from the Polish Pass to the end of its background task
AfterLoop == {"polish", "summary", "except", "finally", "wrapper"}

\* C27: mission_success is broadcast only by the step that follows the Polish Pass
\* and only while the Conductor's log has no pending task; the Polish Pass is entered
\* only from the top of the loop with no pending task, and once it is entered the
\* mission never returns to the loop or to the Polish Pass.
C27_SuccessOnlyAfterPolish ==
    [][/\ "mission_success" \in bcast' =>
            (pc = "summary" /\ PendingAt(tasks) = {} /\ PendingAt(tasks') = {})
       /\ (pc' = "summary" /\ pc # "summary") => pc = "polish"
       /\ (pc' = "polish" /\ pc # "polish") => (pc = "loop" /\ PendingAt(tasks) = {})
       /\ pc \in AfterLoop => pc' \in AfterLoop \cup {"done"}
       /\ pc \in AfterLoop \ {"polish"} => pc' # "polish"]_vars

\* mission_success was broadcast for a log whose tasks are all done
C27_Witness ==
    /\ "mission_success" \in bcast
    /\ pc = "finally"
    /\ tasks # <<>>
    /\ \A i \in 1..Len(tasks) : tasks[i].done

\* C28: for every result of a tool, run_tool's status is SUCCESS exactly when the
\* Conductor counts the attempt as a success, and a filesystem tool's invocation
\* broadcasts file_tree_updated exactly when the Conductor counts it as a success.
C28_ClassificationsAgree ==
    tool_result.action_id # "" =>
        /\ (tool_result.status = "SUCCESS") <=> ~tool_result.is_error
        /\ tool_result.action_id \in FILESYSTEM_TOOLS =>
            (("file_tree_updated" \in tool_result.broadcasts) <=> ~tool_result.is_error)

C30_StopEndsStream ==
    [][/\ stream'.reads <= stream'.polls
       /\ stream'.pc = "read" => stream'.polls = stream'.reads + 1
       /\ (stream.pc = "poll" /\ stream' # stream /\ stream.lines # <<>>
             /\ ~is_mission_running(mission_states, stream.user)) =>
            /\ stream'.pc = "returned"
            /\ stream'.result.kind = "cancelled"
            /\ stream'.result.starts_error
            /\ stream'.forwarded = stream.forwarded
       /\ stream.pc = "returned" => stream'.forwarded = stream.forwarded]_vars

\* a stream was cancelled after it had forwarded an envelope, with lines still to come
C30_Witness ==
    /\ stream.pc = "returned"
    /\ stream.result.kind = "cancelled"
    /\ stream.forwarded > 0
    /\ stream.lines # <<>>

\* C31: a step that calls update_index_for_file(path, content) (the add_function_to_file
\* tool, or run_code_reindex_task after its load_for_project has cleared the index)
\* leaves in the Symbol Index, for the path, exactly the symbols found in the content
\* (none when it does not parse), lists exactly their names under the path, and keeps
\* the symbols of every other file; and every indexed symbol's name stays listed
\* under its file.
C31_UpdateIndexForFile ==
    [][/\ lastOp'.op \in {"add_function_to_file", "run_code_reindex_task"} =>
            LET f == lastOp'.steps[1]
                c == lastOp'.steps[2]
                before == IF lastOp'.op = "run_code_reindex_task" THEN {}
                          ELSE symbol_definitions IN
            /\ {sym \in symbol_definitions' : sym.file_path = f} = visitor_symbols(f, c)
            /\ file_to_symbols'[f] = {sym.name : sym \in visitor_symbols(f, c)}
            /\ {sym \in symbol_definitions' : sym.file_path # f}
                   = {sym \in before : sym.file_path # f}
       /\ \A sym \in symbol_definitions' : sym.name \in file_to_symbols'[sym.file_path]]_vars

\* C32: when broadcast_to_user is over, every send_to_client task of its gather has
\* run, and no exception of a send has reached the caller of broadcast_to_user.
C32_SendFailuresIsolated ==
    broadcast.phase = "done" => (broadcast.pending = {} /\ ~broadcast.raised)

\* C33: the user has an entry in Mission Control exactly while one of the user's
\* missions is between its set_mission_running and its set_mission_finished.
C33_EntryWhileExecuting ==
    (mission_states[Me] # None) <=> (\E m \in Runs : runs[m].pc \in RunExecuting)

\* C35: a mission in whose loop a stop request set the user's flag to false sees
\* is_mission_running false until it has halted.
C35_StoppedStaysStopped ==
    \A m \in Runs :
        (runs[m].stopped /\ runs[m].pc \in RunInLoop) => ~is_mission_running(mission_states, Me)

\* C38: a mission whose stop request was handled between the acknowledged dispatch and
\* its set_mission_running executes no task.
C38_EarlyStopNotLost ==
    \A m \in Runs : runs[m].stop_before_start => runs[m].executed = 0

\* C34: a connect that finds a socket bound to its (user, client) pair ends with the
\* new socket bound, and the binding of a socket is removed only when that socket
\* itself has been closed or has lost its client, never by the handler of a socket
\* that it replaced.
C34_NewBindingStays ==
    [][/\ \A k \in Sockets :
            (sockets[k].pc \in {"accepting", "closing"} /\ sockets'[k].pc # sockets[k].pc
                /\ sockets'[k].pc # "closing") =>
                    /\ sockets'[k].pc = "serving"
                    /\ active_connections'[sockets[k].user][sockets[k].client] = k
       /\ \A u \in Users, c \in Clients :
            LET k == active_connections[u][c] IN
            (k # 0 /\ active_connections'[u][c] = 0) =>
                (sockets[k].closed \/ ~sockets[k].alive)]_vars

\* C37: an invocation whose action function raised, or caught its exception and
\* returned its 'unexpected error' message, is an error for the Conductor, which then
\* leaves the task not done, sets last_error and counts the attempt.
C37_FailedToolIsError ==
    (tool_result.raised \/ tool_result.caught) => tool_result.is_error

\* C39: a mission execution broadcasts at most one terminal message: never both
\* mission_success and mission_failure, and neither of them twice.
C39_OneTerminalMessage ==
    Len(terminal_messages) <= 1

\* a mission ended with mission_failure after all its tasks were done: the exception
\* came in the polish pass or in _handle_mission_completion
C39_Witness ==
    /\ pc = "done"
    /\ terminal_messages = <<"mission_failure">>
    /\ tasks # <<>>
    /\ \A i \in 1..Len(tasks) : tasks[i].done

\* C36: every dispatched mission eventually ends: it reaches mission_success, the
\* halt by the user or mission_failure, and its background task is over.
C36_MissionTerminates ==
    (pc = "queued") ~> (pc = "done")

====
